---- MODULE Spec2Model ----
(***************************************************************************)
(* Lumina gateway: the key service (virtual keys, cache, relational store), *)
(* the proxy dispatcher and the asynchronous log pipeline, as state         *)
(* machines translated from the Go sources.                                 *)
(*                                                                          *)
(* Strings whose characters the code inspects (tokens, model names, glob    *)
(* patterns) are sequences of one-character strings.  Money is an integer   *)
(* number of 1e-8 USD, so that the per-million-token prices of the rate     *)
(* table (2.50, 0.25, ...) are the integers 250, 25, ...                     *)
(***************************************************************************)
EXTENDS Integers, Sequences, FiniteSets, TLC

(***************************************************************************)
(* Bounds of the model.                                                     *)
(***************************************************************************)
\* Virtual keys that CreateKey may mint.
MaxKeys == 2
\* Proxy request handlers that run at the same time.
MaxHandlers == 1
\* Proxy requests started in one behaviour.
MaxRequests == 2
\* Dashboard (key / provider management) operations started in one behaviour.
MaxAdminOps == 2
\* Entries offered to Pipeline.Log in one behaviour: of the pipeline with its
\* shutdown, of the running pipeline, and of the running pipeline under
\* fair scheduling.
MaxEntries == 4
MaxRunEntries == 7
MaxLiveEntries == 4
\* UpdateSpend calls made by callers other than the proxy in one behaviour.
MaxSpendCalls == 3

\* The pipeline's constants (postgres.go:456-462), scaled down: the source has
\* batchSize = 100, workerCount = 10, channelSize = 1000.
batchSize == 2
workerCount == 2
channelSize == 2

(***************************************************************************)
(* Strings.                                                                 *)
(***************************************************************************)
HasPrefix(s, p) == Len(p) <= Len(s) /\ SubSeq(s, 1, Len(p)) = p

HasSuffix(s, p) == Len(p) <= Len(s) /\ SubSeq(s, Len(s) - Len(p) + 1, Len(s)) = p

Contains(s, sub) ==
    \E i \in 1..(Len(s) - Len(sub) + 1) : SubSeq(s, i, i + Len(sub) - 1) = sub

TrimPrefix(s, p) == IF HasPrefix(s, p) THEN SubSeq(s, Len(p) + 1, Len(s)) ELSE s

TrimSuffix(s, p) == IF HasSuffix(s, p) THEN SubSeq(s, 1, Len(s) - Len(p)) ELSE s

\* Position of the first "/" of s, 0 when there is none.
FirstSlash(s) ==
    IF \E i \in 1..Len(s) : s[i] = "/"
    THEN CHOOSE i \in 1..Len(s) : s[i] = "/" /\ \A j \in 1..(i - 1) : s[j] # "/"
    ELSE 0

virtualKeyPrefix == <<"l", "u", "m", "_">>
BearerPrefix == <<"B", "e", "a", "r", "e", "r", " ">>

ProviderOpenAI == <<"o", "p", "e", "n", "a", "i">>
ProviderAnthropic == <<"a", "n", "t", "h", "r", "o", "p", "i", "c">>
ProviderKinds == {ProviderOpenAI, ProviderAnthropic}

\* The model names requests carry.
ModelGpt4o == ProviderOpenAI \o <<"/", "g", "p", "t", "-", "4", "o">>
ModelOpus == ProviderAnthropic \o <<"/", "o", "p", "u", "s">>
ModelMistral == <<"m", "i", "s", "t", "r", "a", "l", "/", "m", "7">>
ModelNoSlash == <<"g", "p", "t", "-", "4">>
ModelInputs == {ModelGpt4o, ModelOpus, ModelMistral, ModelNoSlash}

\* Allowed-model pattern lists a key may be created with.
PatternOpenAIAll == ProviderOpenAI \o <<"/", "*">>
AllowedChoices == {<<>>, <<PatternOpenAIAll>>}

(***************************************************************************)
(* The data model (models.go) and the values the environment supplies.      *)
(***************************************************************************)
Users == {"u1", "u2"}
Secrets == {"sk-A", "sk-B"}
KeyNames == {"n1"}

\* BudgetLimit is a *float64: NoLimit is the nil pointer.
NoLimit == -1
BudgetChoices == {NoLimit, 0}

\* "No value": a cache miss, a missing row, a nil pointer.
None == [none |-> TRUE]

KeyIds == 1..MaxKeys
Digits == <<"1", "2", "3", "4", "5", "6", "7", "8", "9">>

\* GenerateVirtualKey: "lum_" followed by random hex; the i-th key minted gets
\* the i-th distinct body.
GenerateVirtualKey(i) == virtualKeyPrefix \o <<Digits[i]>>

\* A well-formed token no key was minted with, and one without the prefix.
UnknownToken == virtualKeyPrefix \o <<"f">>
ForeignToken == <<"s", "k", "_", "1">>
TokenInputs == {GenerateVirtualKey(i) : i \in KeyIds} \cup {UnknownToken, ForeignToken}

\* The Authorization headers of proxy requests: absent, or "Bearer <token>".
HeaderInputs == {<<>>} \cup {BearerPrefix \o t : t \in TokenInputs}

\* HashKey: SHA-256 of the token, hex encoded; injective on the tokens in use.
HashKey(virtualKey) == <<"sha256">> \o virtualKey

Hashes == {HashKey(t) : t \in TokenInputs}

\* Encrypt / Decrypt: AES-GCM under the master key.  A sealed secret is never
\* its plaintext, Decrypt inverts Encrypt and fails on everything else.
Encrypt(plaintext) ==
    CASE plaintext = "sk-A" -> "gcm:A"
      [] plaintext = "sk-B" -> "gcm:B"
      [] OTHER -> "gcm:?"

Decrypt(ciphertext) ==
    CASE ciphertext = "gcm:A" -> [ok |-> TRUE, plaintext |-> "sk-A"]
      [] ciphertext = "gcm:B" -> [ok |-> TRUE, plaintext |-> "sk-B"]
      [] OTHER -> [ok |-> FALSE, plaintext |-> ""]

VARIABLES
    dbKeys,         \* table virtual_keys: sequence of rows, the id is the index
    dbProviders,    \* table user_providers: user -> provider -> ciphertext, "" for no row
    dbDaily,        \* table daily_stats, the rows of the current date: key id -> totals
    cache,          \* Redis key_config:<hash> -> KeyConfig / None
    stdout,         \* what the process printed (fmt.Printf / fmt.Println): the
                    \* credential material its lines carry
    req,            \* proxy request handlers: position and locals
    admin,          \* dashboard operation in progress: position and locals
    spendTasks,     \* detached UpdateSpend goroutines
    nreq,           \* requests started so far; the next trace id
    nadmin,         \* dashboard operations started so far
    revokeReturned, \* key ids for which RevokeKey has returned nil (history)
    ledger,         \* per key: the UpdateSpend calls made, their summed
                    \* arguments, and whether one returned an error (history)
    applied         \* the last call of a function without side effects: its
                    \* name, arguments and result

VARIABLES
    logChan,        \* Pipeline.logChan: buffered channel contents
    chanClosed,     \* close(p.logChan) has run
    done,           \* close(p.done) has run
    batch,          \* Pipeline.batch
    batchMu,        \* holder of Pipeline.batchMu, or "free"
    task,           \* the pipeline's goroutines (workers, flusher, the caller
                    \* of Close): position and locals
    bulkReqs,       \* batches handed to bulkIndex, in order (history)
    nlog,           \* entries offered to Log so far
    dropped,        \* entries Log dropped (history)
    ticked,         \* the flusher's ticker has fired (history)
    panicked,       \* a send on the closed channel happened
    closeSnapshot   \* entries Log had accepted when Close was called (history)

keyVars == <<dbKeys, dbProviders, dbDaily, cache, stdout, req, admin, spendTasks,
             nreq, nadmin, revokeReturned, ledger, applied>>
pipeVars == <<logChan, chanClosed, done, batch, batchMu, task, bulkReqs, nlog,
              dropped, ticked, panicked, closeSnapshot>>
vars == <<keyVars, pipeVars>>

(***************************************************************************)
(* The log pipeline (package logging).                                     *)
(***************************************************************************)
WorkerNames == <<"w1", "w2", "w3", "w4">>
Workers == {WorkerNames[i] : i \in 1..workerCount}
Flusher == "flusher"
Closer == "closer"
Tasks == Workers \cup {Flusher, Closer}

\* Where p.flush() returns to: the worker's and the flusher's select loop, or
\* the end of Close.
FlushReturn(t) == IF t = Closer THEN "returned" ELSE "select"

\* Entries Log accepted so far: trace ids are 1..nlog in submission order.
Accepted == (1..nlog) \ dropped

\* The entries of all batches handed to bulkIndex.
RECURSIVE Flatten(_)
Flatten(ss) == IF ss = <<>> THEN <<>> ELSE Head(ss) \o Flatten(Tail(ss))

InitPipe ==
    /\ logChan = <<>>
    /\ chanClosed = FALSE
    /\ done = FALSE
    /\ batch = <<>>
    /\ batchMu = "free"
    /\ task = [t \in Tasks |->
                 [pc |-> IF t = Closer THEN "running" ELSE "select",
                  entry |-> 0, local |-> <<>>]]
    /\ bulkReqs = <<>>
    /\ nlog = 0
    /\ dropped = {}
    /\ ticked = FALSE
    /\ panicked = FALSE
    /\ closeSnapshot = {}

\* Log without the default case of its select: a plain send, which waits for
\* room in the channel.
PipelineLogBlocking(entry) ==
    IF chanClosed
    THEN /\ panicked' = TRUE
         /\ UNCHANGED <<logChan, dropped>>
    ELSE /\ Len(logChan) < channelSize
         /\ logChan' = Append(logChan, entry)
         /\ UNCHANGED <<dropped, panicked>>

\* Pipeline.Log: the select with a default case.  A send on a closed channel
\* panics; otherwise the entry is buffered when there is room and dropped
\* when there is none.
PipelineLog(entry) ==
    IF chanClosed
    THEN /\ panicked' = TRUE
         /\ UNCHANGED <<logChan, dropped>>
    ELSE IF Len(logChan) < channelSize
    THEN /\ logChan' = Append(logChan, entry)
         /\ UNCHANGED <<dropped, panicked>>
    ELSE /\ dropped' = dropped \cup {entry}
         /\ UNCHANGED <<logChan, panicked>>

\* A request handler calls Log with a fresh entry; at most max entries are
\* offered in one behaviour.
LogUpTo(max) ==
    /\ nlog < max
    /\ nlog' = nlog + 1
    /\ PipelineLog(nlog + 1)
    /\ UNCHANGED <<chanClosed, done, batch, batchMu, task, bulkReqs, ticked,
                   closeSnapshot>>
    /\ UNCHANGED keyVars

\* worker: `case entry, ok := <-p.logChan` with ok = true.
WorkerRecv(w) ==
    /\ task[w].pc = "select"
    /\ Len(logChan) > 0
    /\ logChan' = Tail(logChan)
    /\ task' = [task EXCEPT ![w].pc = "add_lock", ![w].entry = Head(logChan)]
    /\ UNCHANGED <<chanClosed, done, batch, batchMu, bulkReqs, nlog, dropped,
                   ticked, panicked, closeSnapshot>>
    /\ UNCHANGED keyVars

\* worker: the receive on the closed and empty channel (ok = false).
WorkerChanClosed(w) ==
    /\ task[w].pc = "select"
    /\ chanClosed
    /\ Len(logChan) = 0
    /\ task' = [task EXCEPT ![w].pc = "exited"]
    /\ UNCHANGED <<logChan, chanClosed, done, batch, batchMu, bulkReqs, nlog,
                   dropped, ticked, panicked, closeSnapshot>>
    /\ UNCHANGED keyVars

\* worker: `case <-p.done`; select picks any ready case, so this one can win
\* while entries are still buffered.
WorkerDone(w) ==
    /\ task[w].pc = "select"
    /\ done
    /\ task' = [task EXCEPT ![w].pc = "exited"]
    /\ UNCHANGED <<logChan, chanClosed, done, batch, batchMu, bulkReqs, nlog,
                   dropped, ticked, panicked, closeSnapshot>>
    /\ UNCHANGED keyVars

\* addToBatch: p.batchMu.Lock().
AddLock(w) ==
    /\ task[w].pc = "add_lock"
    /\ batchMu = "free"
    /\ batchMu' = w
    /\ task' = [task EXCEPT ![w].pc = "add_cs"]
    /\ UNCHANGED <<logChan, chanClosed, done, batch, bulkReqs, nlog, dropped,
                   ticked, panicked, closeSnapshot>>
    /\ UNCHANGED keyVars

\* The flush condition, one off: `batchLen > batchSize`.
ShouldFlushLate(batchLen) == batchLen > batchSize

\* addToBatch: the length at which the appending worker goes on to flush.
ShouldFlush(batchLen) == batchLen >= batchSize

\* addToBatch: append, read the length, Unlock; then flush() when shouldFlush.
AddAppend(w) ==
    /\ task[w].pc = "add_cs"
    /\ batchMu = w
    /\ batch' = Append(batch, task[w].entry)
    /\ batchMu' = "free"
    /\ task' = [task EXCEPT
                  ![w].pc = IF ShouldFlush(Len(batch) + 1) THEN "flush_lock" ELSE "select",
                  ![w].entry = 0]
    /\ UNCHANGED <<logChan, chanClosed, done, bulkReqs, nlog, dropped, ticked,
                   panicked, closeSnapshot>>
    /\ UNCHANGED keyVars

\* flush: p.batchMu.Lock().
FlushLock(t) ==
    /\ task[t].pc = "flush_lock"
    /\ batchMu = "free"
    /\ batchMu' = t
    /\ task' = [task EXCEPT ![t].pc = "flush_cs"]
    /\ UNCHANGED <<logChan, chanClosed, done, batch, bulkReqs, nlog, dropped,
                   ticked, panicked, closeSnapshot>>
    /\ UNCHANGED keyVars

\* flush: what p.batch is after the swap, `p.batch = make(..., 0, batchSize)`.
SwappedBatch(b) == <<>>

\* A flush that unlocks only when it returns (`defer p.batchMu.Unlock()`):
\* the mutex stays with the task while it is in bulkIndex.
FlushSwapHolding(t) ==
    /\ task[t].pc = "flush_cs"
    /\ batchMu = t
    /\ IF Len(batch) = 0
       THEN /\ task' = [task EXCEPT ![t].pc = FlushReturn(t)]
            /\ batchMu' = "free"
            /\ UNCHANGED batch
       ELSE /\ task' = [task EXCEPT ![t].pc = "bulk", ![t].local = batch]
            /\ batchMu' = t
            /\ batch' = SwappedBatch(batch)
    /\ UNCHANGED <<logChan, chanClosed, done, bulkReqs, nlog, dropped, ticked,
                   panicked, closeSnapshot>>
    /\ UNCHANGED keyVars

\* flush: under the mutex, return on an empty batch, else take the batch and
\* leave a fresh one; Unlock in both cases.
FlushSwap(t) ==
    /\ task[t].pc = "flush_cs"
    /\ batchMu = t
    /\ batchMu' = "free"
    /\ IF Len(batch) = 0
       THEN /\ task' = [task EXCEPT ![t].pc = FlushReturn(t)]
            /\ UNCHANGED batch
       ELSE /\ task' = [task EXCEPT ![t].pc = "bulk", ![t].local = batch]
            /\ batch' = SwappedBatch(batch)
    /\ UNCHANGED <<logChan, chanClosed, done, bulkReqs, nlog, dropped, ticked,
                   panicked, closeSnapshot>>
    /\ UNCHANGED keyVars

\* flush that puts the taken batch back when bulkIndex failed (a retry).
BatchAfterBulkRequeue(ok, b, taken) == IF ok THEN b ELSE b \o taken

\* flush: p.batch after bulkIndex returned: an error is logged and the taken
\* batch is let go, nothing is put back.
BatchAfterBulk(ok, b, taken) == b

\* flush: p.bulkIndex(batch), outside the mutex; the request is one POST to
\* /_bulk carrying the taken batch, and it succeeds or fails.
BulkIndex(t) ==
    /\ task[t].pc = "bulk"
    /\ bulkReqs' = Append(bulkReqs, task[t].local)
    /\ \E ok \in BOOLEAN : batch' = BatchAfterBulk(ok, batch, task[t].local)
    /\ task' = [task EXCEPT ![t].pc = FlushReturn(t), ![t].local = <<>>]
    /\ UNCHANGED <<logChan, chanClosed, done, batchMu, nlog, dropped, ticked,
                   panicked, closeSnapshot>>
    /\ UNCHANGED keyVars

\* A flusher whose tick does not flush.
TickTargetIdle == "select"

\* flusher: what a tick leads to, the call of p.flush().
TickTarget == "flush_lock"

\* flusher: `case <-ticker.C`.
Tick ==
    /\ task[Flusher].pc = "select"
    /\ ticked' = TRUE
    /\ task' = [task EXCEPT ![Flusher].pc = TickTarget]
    /\ UNCHANGED <<logChan, chanClosed, done, batch, batchMu, bulkReqs, nlog,
                   dropped, panicked, closeSnapshot>>
    /\ UNCHANGED keyVars

\* flusher: `case <-p.done`.
FlusherDone ==
    /\ task[Flusher].pc = "select"
    /\ done
    /\ task' = [task EXCEPT ![Flusher].pc = "exited"]
    /\ UNCHANGED <<logChan, chanClosed, done, batch, batchMu, bulkReqs, nlog,
                   dropped, ticked, panicked, closeSnapshot>>
    /\ UNCHANGED keyVars

\* Close: close(p.done).
CloseDone ==
    /\ task[Closer].pc = "running"
    /\ done' = TRUE
    /\ closeSnapshot' = Accepted
    /\ task' = [task EXCEPT ![Closer].pc = "close_chan"]
    /\ UNCHANGED <<logChan, chanClosed, batch, batchMu, bulkReqs, nlog, dropped,
                   ticked, panicked>>
    /\ UNCHANGED keyVars

\* Close: close(p.logChan).
CloseChan ==
    /\ task[Closer].pc = "close_chan"
    /\ chanClosed' = TRUE
    /\ task' = [task EXCEPT ![Closer].pc = "wait"]
    /\ UNCHANGED <<logChan, done, batch, batchMu, bulkReqs, nlog, dropped, ticked,
                   panicked, closeSnapshot>>
    /\ UNCHANGED keyVars

\* Close: p.wg.Wait() returns once the workers and the flusher have exited;
\* then the final p.flush().
CloseWait ==
    /\ task[Closer].pc = "wait"
    /\ \A t \in Workers \cup {Flusher} : task[t].pc = "exited"
    /\ task' = [task EXCEPT ![Closer].pc = "flush_lock"]
    /\ UNCHANGED <<logChan, chanClosed, done, batch, batchMu, bulkReqs, nlog,
                   dropped, ticked, panicked, closeSnapshot>>
    /\ UNCHANGED keyVars

(***************************************************************************)
(* The key service (package auth), over the relational store (package      *)
(* database) and the cache (package cache).                                *)
(***************************************************************************)
ProcNames == <<"r1", "r2", "r3">>
Procs == {ProcNames[i] : i \in 1..MaxHandlers}

\* calls, logs and spends count what the request has done so far: upstream
\* calls, Log submissions, UpdateSpend tasks started; entry and spend are the
\* log entry it submitted and the UpdateSpend arguments it passed (history).
\* resp is the upstream response the handler holds; written says that the
\* status line has gone to the client, status and body are what the client
\* has received.  revokedAtStart records, for a ValidateKey that missed the
\* cache, that the key's revocation was stored before it started (history).
IdleReq ==
    [pc |-> "idle", trace |-> 0, hash |-> <<>>, key |-> None, cfg |-> None,
     call |-> None, status |-> 0, err |-> "", late |-> FALSE,
     calls |-> 0, logs |-> 0, spends |-> 0, entry |-> None, spend |-> None,
     resp |-> None, written |-> FALSE, body |-> "", message |-> <<>>,
     revokedAtStart |-> FALSE]

\* An UpdateKeyRequest: each field is given or absent.
NoPatch ==
    [hasName |-> FALSE, name |-> "", hasAllowed |-> FALSE, allowed |-> <<>>,
     hasBudget |-> FALSE, budget |-> 0]

IdleAdmin ==
    [pc |-> "idle", op |-> "", id |-> 0, user |-> "", hash |-> <<>>, todo |-> <<>>,
     patch |-> NoPatch, status |-> 0, err |-> ""]

NoDaily == [tokens |-> 0, cost |-> 0, rows |-> 0]

NoCalls == [calls |-> 0, cost |-> 0, tokens |-> 0, failed |-> FALSE]

NotApplied == [fn |-> "", args |-> <<>>, result |-> FALSE]

InitKeys ==
    /\ dbKeys = <<>>
    /\ dbProviders = [u \in Users |-> [k \in ProviderKinds |-> ""]]
    /\ dbDaily = [i \in KeyIds |-> NoDaily]
    /\ cache = [h \in Hashes |-> None]
    /\ stdout = {}
    /\ req = [p \in Procs |-> IdleReq]
    /\ admin = IdleAdmin
    /\ spendTasks = {}
    /\ ledger = [i \in KeyIds |-> NoCalls]
    /\ nreq = 0
    /\ nadmin = 0
    /\ revokeReturned = {}
    /\ applied = NotApplied

\* A row of virtual_keys together with its id.
KeyRow(i) == [id |-> i] @@ dbKeys[i]

\* The row of the token hash has revoked_at set (history: what a ValidateKey
\* that starts now has behind it).
RevocationStored(keyHash) ==
    \E i \in 1..Len(dbKeys) : dbKeys[i].hash = keyHash /\ dbKeys[i].revoked

\* A lookup that neither filters on revoked_at nor reads the column.
GetVirtualKeyByHashAnyRow(keyHash) ==
    LET ids == {i \in 1..Len(dbKeys) : dbKeys[i].hash = keyHash}
    IN  IF ids = {} THEN None
        ELSE [KeyRow(CHOOSE i \in ids : TRUE) EXCEPT !.revoked = FALSE]

\* db.GetVirtualKeyByHash: `WHERE key_hash = $1 AND revoked_at IS NULL`; None
\* for sql.ErrNoRows.
GetVirtualKeyByHash(keyHash) ==
    LET ids == {i \in 1..Len(dbKeys) : dbKeys[i].hash = keyHash /\ ~dbKeys[i].revoked}
    IN  IF ids = {} THEN None ELSE KeyRow(CHOOSE i \in ids : TRUE)

\* db.GetVirtualKeyByID: `WHERE id = $1`, revoked or not.
GetVirtualKeyByID(id) == IF id \in 1..Len(dbKeys) THEN KeyRow(id) ELSE None

\* db.ListVirtualKeysByUser: `WHERE user_id = $1 ORDER BY created_at DESC`;
\* ids grow with creation time.
RECURSIVE KeysDesc(_, _)
KeysDesc(userID, n) ==
    IF n = 0 THEN <<>>
    ELSE IF dbKeys[n].user = userID
         THEN <<KeyRow(n)>> \o KeysDesc(userID, n - 1)
         ELSE KeysDesc(userID, n - 1)

ListVirtualKeysByUser(userID) == KeysDesc(userID, Len(dbKeys))

\* db.GetUserProviders: the provider kinds user has a row for.
GetUserProviders(userID) == {k \in ProviderKinds : dbProviders[userID][k] # ""}

\* A ValidateKey that leaves out the provider rows it cannot decrypt.
DecryptAllSkipping(userID) ==
    [k \in {j \in GetUserProviders(userID) : Decrypt(dbProviders[userID][j]).ok} |->
        Decrypt(dbProviders[userID][k])]

\* ValidateKey, lines 181-199: decrypt every provider row of the owner and
\* build the KeyConfig from the key row.
DecryptAll(userID) ==
    [k \in GetUserProviders(userID) |-> Decrypt(dbProviders[userID][k])]

\* A KeyConfig built without the current spend of the row.
BuildKeyConfigSpendless(key, providers) ==
    [keyID |-> key.id, userID |-> key.user, name |-> key.name,
     allowed |-> key.allowed, providers |-> providers,
     budget |-> key.budget, spend |-> 0]

BuildKeyConfig(key, providers) ==
    [keyID |-> key.id, userID |-> key.user, name |-> key.name,
     allowed |-> key.allowed, providers |-> providers,
     budget |-> key.budget, spend |-> key.spend]

\* GetProviderKey: the map lookup of config.Providers.
GetProviderKey(config, provider) ==
    IF provider \in DOMAIN config.providers
    THEN [ok |-> TRUE, apiKey |-> config.providers[provider]]
    ELSE [ok |-> FALSE, apiKey |-> ""]

\* filepath.Match on patterns without character classes and escapes: `*` is
\* any run of non-separator characters, `?` one non-separator character.
RECURSIVE Match(_, _)
Match(pattern, name) ==
    IF pattern = <<>> THEN name = <<>>
    ELSE IF Head(pattern) = "*"
    THEN \E k \in 0..Len(name) :
            /\ \A j \in 1..k : name[j] # "/"
            /\ Match(Tail(pattern), SubSeq(name, k + 1, Len(name)))
    ELSE IF Head(pattern) = "?"
    THEN name # <<>> /\ Head(name) # "/" /\ Match(Tail(pattern), Tail(name))
    ELSE name # <<>> /\ Head(name) = Head(pattern) /\ Match(Tail(pattern), Tail(name))

matchModelPattern(pattern, model) ==
    \/ pattern = <<"*">>
    \/ Match(pattern, model)
    \/ HasSuffix(pattern, <<"*">>) /\ HasPrefix(model, TrimSuffix(pattern, <<"*">>))

IsModelAllowed(config, model) ==
    \/ Len(config.allowed) = 0
    \/ \E i \in 1..Len(config.allowed) : matchModelPattern(config.allowed[i], model)

\* CheckBudget rejecting a spend that reaches the cap.
CheckBudgetInclusive(config, estimatedCost) ==
    IF config.budget = NoLimit THEN TRUE
    ELSE ~(config.spend + estimatedCost >= config.budget)

\* CheckBudget: no cap, or current spend plus the estimate within the cap.
CheckBudget(config, estimatedCost) ==
    IF config.budget = NoLimit THEN TRUE
    ELSE ~(config.spend + estimatedCost > config.budget)

(***************************************************************************)
(* The proxy dispatcher (package proxy).                                   *)
(***************************************************************************)
\* parseModel: strings.SplitN(model, "/", 2) must give two parts.
parseModel(model) ==
    LET i == FirstSlash(model)
    IN  IF i = 0
        THEN [ok |-> FALSE, provider |-> <<>>, actualModel |-> <<>>]
        ELSE [ok |-> TRUE, provider |-> SubSeq(model, 1, i - 1),
              actualModel |-> SubSeq(model, i + 1, Len(model))]

\* A rate table that tries the gpt-4 row before the gpt-4o row.
PriceOfReordered(provider, actualModel) ==
    CASE provider = ProviderOpenAI ->
           (CASE HasPrefix(actualModel, <<"g", "p", "t", "-", "4">>) ->
                   [input |-> 3000, output |-> 6000]
              [] HasPrefix(actualModel, <<"g", "p", "t", "-", "4", "o">>) ->
                   [input |-> 250, output |-> 1000]
              [] HasPrefix(actualModel, <<"g", "p", "t", "-", "3", ".", "5">>) ->
                   [input |-> 50, output |-> 150]
              [] HasPrefix(actualModel, <<"o", "1">>) ->
                   [input |-> 1500, output |-> 6000]
              [] OTHER -> [input |-> 100, output |-> 200])
      [] provider = ProviderAnthropic ->
           (CASE Contains(actualModel, <<"o", "p", "u", "s">>) ->
                   [input |-> 1500, output |-> 7500]
              [] Contains(actualModel, <<"s", "o", "n", "n", "e", "t">>) ->
                   [input |-> 300, output |-> 1500]
              [] Contains(actualModel, <<"h", "a", "i", "k", "u">>) ->
                   [input |-> 25, output |-> 125]
              [] OTHER -> [input |-> 300, output |-> 1500])
      [] OTHER -> [input |-> 100, output |-> 200]

\* The rate table of calculateCost, per million tokens, in 1e-2 USD.
PriceOf(provider, actualModel) ==
    CASE provider = ProviderOpenAI ->
           (CASE HasPrefix(actualModel, <<"g", "p", "t", "-", "4", "o">>) ->
                   [input |-> 250, output |-> 1000]
              [] HasPrefix(actualModel, <<"g", "p", "t", "-", "4">>) ->
                   [input |-> 3000, output |-> 6000]
              [] HasPrefix(actualModel, <<"g", "p", "t", "-", "3", ".", "5">>) ->
                   [input |-> 50, output |-> 150]
              [] HasPrefix(actualModel, <<"o", "1">>) ->
                   [input |-> 1500, output |-> 6000]
              [] OTHER -> [input |-> 100, output |-> 200])
      [] provider = ProviderAnthropic ->
           (CASE Contains(actualModel, <<"o", "p", "u", "s">>) ->
                   [input |-> 1500, output |-> 7500]
              [] Contains(actualModel, <<"s", "o", "n", "n", "e", "t">>) ->
                   [input |-> 300, output |-> 1500]
              [] Contains(actualModel, <<"h", "a", "i", "k", "u">>) ->
                   [input |-> 25, output |-> 125]
              [] OTHER -> [input |-> 300, output |-> 1500])
      [] OTHER -> [input |-> 100, output |-> 200]

\* calculateCost, in 1e-8 USD: tokens / 1e6 * price for input and output.
calculateCost(provider, model, usage) ==
    LET parsed == parseModel(model)
        actualModel == IF parsed.ok THEN parsed.actualModel ELSE model
        price == PriceOf(provider, actualModel)
    IN  usage.prompt * price.input + usage.completion * price.output

\* What the environment supplies to a request: the body, and the upstream's
\* answer.  BadJSON is a body json.Unmarshal rejects; NoModel a body whose
\* "model" is absent or no string (extractModel gives "unknown").
BadJSON == <<"{">>
ModelUnknown == <<"u", "n", "k", "n", "o", "w", "n">>
BodyModels == ModelInputs \cup {ModelUnknown}
NoUsage == [prompt |-> 0, completion |-> 0]

\* Upstream response bodies: a completion with a usage object, a JSON object
\* without one, a body that is no JSON, and a usage object with a negative
\* count.
BodyWithUsage == "{\"choices\":[{\"message\":{\"content\":\"hi\"}}],\"usage\":{\"prompt_tokens\":1,\"completion_tokens\":2}}"
BodyNoUsage == "{\"error\":\"rate limited\"}"
BodyNotJSON == "<html>bad gateway</html>"
BodyNegativeUsage == "{\"usage\":{\"prompt_tokens\":-4,\"completion_tokens\":0}}"
\* The body the client has when the upstream stream broke off.
BodyPartial == "data: "
\* The body writeError sends.
ErrorBody == "{\"error\":message}"

\* handleJSONResponse, lines 213-227: json.Unmarshal of the body, its error
\* ignored, and the usage object read from the result.
ParseUsage(respBody) ==
    CASE respBody = BodyWithUsage -> [prompt |-> 1, completion |-> 2]
      [] respBody = BodyNegativeUsage -> [prompt |-> -4, completion |-> 0]
      [] OTHER -> NoUsage

\* extractContent: choices[0].message.content, else content[0].text, else "".
extractContent(respBody) == IF respBody = BodyWithUsage THEN "hi" ELSE ""

\* Upstream answers: status and body.
AnswerInputs ==
    {[status |-> 200, body |-> BodyWithUsage],
     [status |-> 429, body |-> BodyNoUsage],
     [status |-> 500, body |-> BodyNotJSON],
     [status |-> 200, body |-> BodyNegativeUsage]}

\* The text of an error a Redis, Postgres or crypto call returned.
DriverText == "dial tcp 10.0.0.5:6379: connect: connection refused"

\* err.Error() of the error a request ends with, as the parts fmt.Errorf
\* joined with ": ": ValidateKey wraps the adapter's error, which wraps the
\* driver's.
ErrorMessage(err) ==
    CASE err = "cache error" -> <<"cache error", "failed to get key config", DriverText>>
      [] err = "database error" ->
           <<"database error", "failed to get virtual key", DriverText>>
      [] err = "decryption error" -> <<"decryption error", DriverText>>
      [] err = "" -> <<>>
      [] OTHER -> <<err>>

\* writeError and the end of the handler: the response is written and the
\* handler's locals are gone.
Respond(p, status, err) ==
    [IdleReq EXCEPT !.pc = "done", !.status = status, !.err = err,
                    !.trace = req[p].trace, !.late = req[p].late,
                    !.calls = req[p].calls,
                    !.written = TRUE, !.body = IF err = "" THEN "" ELSE ErrorBody,
                    !.message = ErrorMessage(err),
                    !.revokedAtStart = req[p].revokedAtStart]

pipeRest == <<chanClosed, done, batch, batchMu, task, bulkReqs, nlog, ticked,
              closeSnapshot>>

\* ValidateKey returned config to request p: the handler goes on to read the
\* body.  late records that this happened after RevokeKey had returned for
\* the key (history).
Validated(p, config) ==
    [req[p] EXCEPT !.pc = "body", !.cfg = config, !.key = None,
                   !.late = config.keyID \in revokeReturned]

\* proxyUnified up to the cache read of ValidateKey: the Authorization
\* header, the "lum_" prefix, cache.GetKeyConfig.
ReqStart(p) ==
    /\ req[p].pc \in {"idle", "done"}
    /\ nreq < MaxRequests
    /\ nreq' = nreq + 1
    /\ \E authHeader \in HeaderInputs :
         LET virtualKey == TrimPrefix(authHeader, BearerPrefix)
             keyHash == HashKey(virtualKey)
             r == [IdleReq EXCEPT !.trace = nreq + 1]
         IN  IF ~HasPrefix(authHeader, BearerPrefix)
             THEN req' = [req EXCEPT ![p] =
                            [r EXCEPT !.pc = "done", !.status = 401, !.err = "missing header",
                                      !.written = TRUE, !.body = ErrorBody,
                                      !.message = ErrorMessage("missing header")]]
             ELSE IF ~HasPrefix(virtualKey, virtualKeyPrefix)
             THEN req' = [req EXCEPT ![p] =
                            [r EXCEPT !.pc = "done", !.status = 401, !.err = "invalid key",
                                      !.written = TRUE, !.body = ErrorBody,
                                      !.message = ErrorMessage("invalid key")]]
             ELSE \E cacheOk \in BOOLEAN :
                    IF ~cacheOk
                    THEN req' = [req EXCEPT ![p] =
                                   [r EXCEPT !.pc = "done", !.status = 401, !.err = "cache error",
                                             !.written = TRUE, !.body = ErrorBody,
                                             !.message = ErrorMessage("cache error")]]
                    ELSE IF cache[keyHash] # None
                    THEN req' = [req EXCEPT ![p] =
                                   [r EXCEPT !.pc = "body", !.cfg = cache[keyHash],
                                             !.late = cache[keyHash].keyID \in revokeReturned]]
                    ELSE req' = [req EXCEPT ![p] =
                                   [r EXCEPT !.pc = "vk_key", !.hash = keyHash,
                                             !.revokedAtStart = RevocationStored(keyHash)]]
    /\ UNCHANGED <<dbKeys, dbProviders, dbDaily, cache, stdout, applied, admin, spendTasks, ledger,
                   nadmin, revokeReturned, pipeVars>>

\* ValidateKey: db.GetVirtualKeyByHash.
ReqDbKey(p) ==
    /\ req[p].pc = "vk_key"
    /\ \E dbOk \in BOOLEAN :
         LET key == GetVirtualKeyByHash(req[p].hash)
         IN  IF ~dbOk
             THEN req' = [req EXCEPT ![p] = Respond(p, 401, "database error")]
             ELSE IF key = None
             THEN req' = [req EXCEPT ![p] = Respond(p, 401, "invalid key")]
             ELSE IF key.revoked
             THEN req' = [req EXCEPT ![p] = Respond(p, 401, "key revoked")]
             ELSE req' = [req EXCEPT ![p].pc = "vk_prov", ![p].key = key]
    /\ UNCHANGED <<dbKeys, dbProviders, dbDaily, cache, stdout, applied, admin, spendTasks, ledger,
                   nreq, nadmin, revokeReturned, pipeVars>>

\* ValidateKey: db.GetUserProviders, Decrypt of each row, the KeyConfig.
ReqDbProviders(p) ==
    /\ req[p].pc = "vk_prov"
    /\ \E dbOk \in BOOLEAN :
         LET opened == DecryptAll(req[p].key.user)
         IN  IF ~dbOk
             THEN req' = [req EXCEPT ![p] = Respond(p, 401, "database error")]
             ELSE IF \E k \in DOMAIN opened : ~opened[k].ok
             THEN req' = [req EXCEPT ![p] = Respond(p, 401, "decryption error")]
             ELSE req' = [req EXCEPT ![p].pc = "vk_set",
                                     ![p].cfg = BuildKeyConfig(req[p].key,
                                                  [k \in DOMAIN opened |-> opened[k].plaintext])]
    /\ UNCHANGED <<dbKeys, dbProviders, dbDaily, cache, stdout, applied, admin, spendTasks, ledger,
                   nreq, nadmin, revokeReturned, pipeVars>>

\* ValidateKey: cache.SetKeyConfig, whose failure is printed and swallowed.
ReqCacheSet(p) ==
    /\ req[p].pc = "vk_set"
    /\ \E cacheOk \in BOOLEAN :
         cache' = IF cacheOk THEN [cache EXCEPT ![req[p].hash] = req[p].cfg] ELSE cache
    /\ req' = [req EXCEPT ![p] = [Validated(p, req[p].cfg) EXCEPT !.hash = <<>>]]
    /\ UNCHANGED <<dbKeys, dbProviders, dbDaily, stdout, applied, admin, spendTasks, ledger,
                   nreq, nadmin, revokeReturned, pipeVars>>

openAIBaseURL == "https://api.openai.com"
anthropicBaseURL == "https://api.anthropic.com"

\* The upstream paths of the routes (ChatCompletions, AnthropicMessages; the
\* other two routes differ from ChatCompletions in the path only).
Routes == {"/v1/chat/completions", "/v1/messages"}

BodyInputs ==
    {[readable |-> FALSE, json |-> FALSE, model |-> <<>>, stream |-> FALSE],
     [readable |-> TRUE, json |-> FALSE, model |-> <<>>, stream |-> FALSE]}
    \cup [readable : {TRUE}, json : {TRUE}, model : BodyModels, stream : BOOLEAN]

\* proxyUnified from the body to the upstream request: the stages between
\* the return of ValidateKey and httpClient.Do.  The result is the response
\* of a rejected request, or the upstream call of an admitted one.
Admission(config, path, body) ==
    LET parsed == parseModel(body.model)
        got == GetProviderKey(config, parsed.provider)
        line == IF got.apiKey = "" THEN {} ELSE {got.apiKey}
    IN  IF ~body.readable THEN [status |-> 400, err |-> "failed to read request body", printed |-> {}]
        ELSE IF ~body.json THEN [status |-> 400, err |-> "invalid JSON body", printed |-> {}]
        ELSE IF ~parsed.ok THEN [status |-> 400, err |-> "invalid model format", printed |-> {}]
        ELSE IF ~IsModelAllowed(config, body.model)
        THEN [status |-> 403, err |-> "model not allowed", printed |-> {}]
        ELSE IF ~got.ok
        THEN [status |-> 400, err |-> "provider not configured", printed |-> line]
        ELSE IF parsed.provider = ProviderOpenAI
        THEN [status |-> 0, err |-> "", printed |-> line,
              call |-> [base |-> openAIBaseURL, path |-> path, header |-> "Authorization",
                        apiKey |-> got.apiKey, provider |-> parsed.provider,
                        fullModel |-> body.model, model |-> parsed.actualModel,
                        stream |-> body.stream]]
        ELSE IF parsed.provider = ProviderAnthropic
        THEN [status |-> 0, err |-> "", printed |-> line,
              call |-> [base |-> anthropicBaseURL, path |-> "/v1/messages", header |-> "x-api-key",
                        apiKey |-> got.apiKey, provider |-> parsed.provider,
                        fullModel |-> body.model, model |-> parsed.actualModel,
                        stream |-> body.stream]]
        ELSE [status |-> 400, err |-> "unsupported provider", printed |-> line]

\* A handler that sends the upstream request a second time.
DispatchTwice(p, call) ==
    [req[p] EXCEPT !.pc = "upstream", !.call = call, !.calls = @ + 2]

\* proxyUnified, lines 166-184: the upstream request is built and sent with
\* httpClient.Do, once.
Dispatch(p, call) ==
    [req[p] EXCEPT !.pc = "upstream", !.call = call, !.calls = @ + 1]

\* proxyUnified, lines 87-179: read and parse the body, authorise the model,
\* fetch the provider secret (and print it, line 118), build and send the
\* upstream request.
ReqPolicy(p) ==
    /\ req[p].pc = "body"
    /\ \E path \in Routes, body \in BodyInputs :
         LET a == Admission(req[p].cfg, path, body)
         IN  /\ stdout' = stdout \cup a.printed
             /\ IF a.status # 0
                THEN req' = [req EXCEPT ![p] = Respond(p, a.status, a.err)]
                ELSE req' = [req EXCEPT ![p] = Dispatch(p, a.call)]
    /\ UNCHANGED <<applied, dbKeys, dbProviders, dbDaily, cache, admin, spendTasks, ledger, nreq,
                   nadmin, revokeReturned, pipeVars>>

\* A log entry that leaves CostUSD unset.
LogEntryCostless(p, content, usage, cost, statusCode) ==
    [trace |-> req[p].trace, key |-> req[p].cfg.keyID, content |-> content,
     tokens |-> usage.prompt + usage.completion, cost |-> 0, status |-> statusCode]

\* The log entry handleJSONResponse and handleStreamingResponse build.
LogEntry(p, content, usage, cost, statusCode) ==
    [trace |-> req[p].trace, key |-> req[p].cfg.keyID, content |-> content,
     tokens |-> usage.prompt + usage.completion, cost |-> cost, status |-> statusCode]

\* `go func() { UpdateSpend(ctx, keyID, cost, tokens) }()`: the call starts
\* as a goroutine of its own.
StartUpdateSpend(trace, keyID, cost, tokens) ==
    /\ spendTasks' = spendTasks \cup
          {[trace |-> trace, key |-> keyID, cost |-> cost, tokens |-> tokens,
            pc |-> "spend"]}
    /\ ledger' = [ledger EXCEPT ![keyID] =
                    [calls |-> @.calls + 1, cost |-> @.cost + cost,
                     tokens |-> @.tokens + tokens, failed |-> @.failed]]

\* A handler that sends the upstream request again when the transport fails.
UpstreamUnreachableRetry(p) == Dispatch(p, req[p].call)

\* proxyUnified, lines 179-183: httpClient.Do returned an error; the handler
\* writes 502 and returns.
UpstreamUnreachable(p) == Respond(p, 502, "failed to reach upstream")

\* proxyUnified from the return of httpClient.Do: 502 on a transport error;
\* else handleStreamingResponse up to the first read of the stream (the
\* status line is written), or handleJSONResponse up to Log: the body is
\* read, UpdateSpend is started, the entry is submitted.  The channel holds
\* the entries by their trace ids.
ReqUpstream(p) ==
    /\ req[p].pc = "upstream"
    /\ \E reached \in BOOLEAN, readable \in BOOLEAN, answer \in AnswerInputs :
         LET call == req[p].call
             usage == ParseUsage(answer.body)
             cost == calculateCost(call.provider, call.fullModel, usage)
             tokens == usage.prompt + usage.completion
         IN  IF ~reached
             THEN /\ req' = [req EXCEPT ![p] = UpstreamUnreachable(p)]
                  /\ UNCHANGED <<spendTasks, ledger, logChan, dropped, panicked>>
             ELSE IF call.stream
             THEN /\ req' = [req EXCEPT ![p].pc = "stream", ![p].resp = answer,
                                         ![p].written = TRUE, ![p].status = answer.status]
                  /\ UNCHANGED <<spendTasks, ledger, logChan, dropped, panicked>>
             ELSE IF ~readable
             THEN /\ req' = [req EXCEPT ![p] =
                               Respond(p, 502, "failed to read upstream response")]
                  /\ UNCHANGED <<spendTasks, ledger, logChan, dropped, panicked>>
             ELSE /\ StartUpdateSpend(req[p].trace, req[p].cfg.keyID, cost, tokens)
                  /\ PipelineLog(req[p].trace)
                  /\ req' = [req EXCEPT
                               ![p].pc = "write", ![p].resp = answer,
                               ![p].logs = req[p].logs + 1, ![p].spends = req[p].spends + 1,
                               ![p].entry = LogEntry(p, extractContent(answer.body), usage,
                                                     cost, answer.status),
                               ![p].spend = [key |-> req[p].cfg.keyID, cost |-> cost,
                                             tokens |-> tokens]]
    /\ UNCHANGED <<dbKeys, dbProviders, dbDaily, cache, stdout, applied, admin, nreq, nadmin,
                   revokeReturned, pipeRest>>

\* A handler that answers with the re-encoded parse of the upstream body:
\* what json.Unmarshal could not read becomes "null".
FinishReencoded(p, body) ==
    [Respond(p, req[p].resp.status, "") EXCEPT
        !.body = IF body = BodyNotJSON THEN "null" ELSE body,
        !.logs = req[p].logs, !.spends = req[p].spends,
        !.entry = req[p].entry, !.spend = req[p].spend]

\* The end of a request that got an upstream response: the handler's locals
\* are gone, what it did and what the client received stay (history).
Finish(p, body) ==
    [Respond(p, req[p].resp.status, "") EXCEPT
        !.body = body, !.logs = req[p].logs, !.spends = req[p].spends,
        !.entry = req[p].entry, !.spend = req[p].spend]

\* handleJSONResponse, lines 264-271: the upstream headers, status and body
\* are written to the client.
ReqWrite(p) ==
    /\ req[p].pc = "write"
    /\ req' = [req EXCEPT ![p] = Finish(p, req[p].resp.body)]
    /\ UNCHANGED <<dbKeys, dbProviders, dbDaily, cache, stdout, applied, admin, spendTasks, ledger, nreq,
                   nadmin, revokeReturned, pipeVars>>

\* A streaming handler that meters the stream like a buffered response.
StreamingLogEntryMetered(p) ==
    LET usage == ParseUsage(req[p].resp.body)
    IN  LogEntry(p, "[streaming response]", usage,
                 calculateCost(req[p].call.provider, req[p].call.fullModel, usage),
                 req[p].resp.status)

\* handleStreamingResponse, lines 313-333: the entry of a streamed response,
\* with the zero UsageLog and CostUSD 0.
StreamingLogEntry(p) ==
    LogEntry(p, "[streaming response]", NoUsage, 0, req[p].resp.status)

\* handleStreamingResponse, lines 291-334: the chunks are copied to the client
\* until EOF or a read error, then the entry is submitted.  (w is always an
\* http.Flusher here: net/http's writer under chi's wrappers.)
ReqStreamEnd(p) ==
    /\ req[p].pc = "stream"
    /\ PipelineLog(req[p].trace)
    /\ \E eof \in BOOLEAN :
         req' = [req EXCEPT ![p] =
                   [Finish(p, IF eof THEN req[p].resp.body ELSE BodyPartial) EXCEPT
                      !.logs = req[p].logs + 1,
                      !.entry = StreamingLogEntry(p)]]
    /\ UNCHANGED <<dbKeys, dbProviders, dbDaily, cache, stdout, applied, admin, spendTasks, ledger, nreq,
                   nadmin, revokeReturned, pipeRest>>

\* An update that writes the amount over the column instead of adding to it.
UpdateKeySpendOverwrite(keys, keyID, amount) ==
    [keys EXCEPT ![keyID].spend = amount]

\* db.UpdateKeySpend: `SET current_spend = current_spend + $1 WHERE id = $2`,
\* one statement.
UpdateKeySpend(keys, keyID, amount) ==
    [keys EXCEPT ![keyID].spend = @ + amount]

\* db.UpsertDailyStat: insert the row of (key_id, CURRENT_DATE), or on the
\* conflict add to its totals; one statement.
UpsertDailyStat(daily, keyID, tokens, cost) ==
    [daily EXCEPT ![keyID] =
        [tokens |-> @.tokens + tokens, cost |-> @.cost + cost, rows |-> 1]]

\* UpdateSpend returned an error for a call on keyID.
Failed(keyID) == [ledger EXCEPT ![keyID].failed = TRUE]

\* UpdateSpend: db.UpdateKeySpend; on an error UpdateSpend returns it without
\* the daily-stat upsert.
SpendIncrement ==
    \E t \in spendTasks :
      /\ t.pc = "spend"
      /\ \E dbOk \in BOOLEAN :
           IF dbOk
           THEN /\ dbKeys' = UpdateKeySpend(dbKeys, t.key, t.cost)
                /\ spendTasks' = (spendTasks \ {t}) \cup {[t EXCEPT !.pc = "daily"]}
                /\ UNCHANGED ledger
           ELSE /\ spendTasks' = spendTasks \ {t}
                /\ ledger' = Failed(t.key)
                /\ UNCHANGED dbKeys
      /\ UNCHANGED <<dbProviders, dbDaily, cache, stdout, applied, req, admin, nreq, nadmin,
                     revokeReturned, pipeVars>>

\* UpdateSpend: db.UpsertDailyStat, then the return.
SpendUpsert ==
    \E t \in spendTasks :
      /\ t.pc = "daily"
      /\ spendTasks' = spendTasks \ {t}
      /\ \E dbOk \in BOOLEAN :
           IF dbOk
           THEN /\ dbDaily' = UpsertDailyStat(dbDaily, t.key, t.tokens, t.cost)
                /\ UNCHANGED ledger
           ELSE /\ ledger' = Failed(t.key)
                /\ UNCHANGED dbDaily
      /\ UNCHANGED <<dbKeys, dbProviders, cache, stdout, applied, req, admin, nreq, nadmin,
                     revokeReturned, pipeVars>>

\* A caller of UpdateSpend other than the proxy: any cost and token count, on
\* a key that exists.
SpendInputs == {[cost |-> 3, tokens |-> 2], [cost |-> 5, tokens |-> 1]}

\* UpdateSpend calls made so far on the keys up to id n.
RECURSIVE CallsMade(_)
CallsMade(n) == IF n = 0 THEN 0 ELSE ledger[n].calls + CallsMade(n - 1)

UpdateSpendCall ==
    /\ CallsMade(MaxKeys) < MaxSpendCalls
    /\ \E keyID \in 1..Len(dbKeys), in \in SpendInputs :
         StartUpdateSpend(CallsMade(MaxKeys) + 1, keyID, in.cost, in.tokens)
    /\ UNCHANGED <<dbKeys, dbProviders, dbDaily, cache, stdout, applied, req, admin, nreq, nadmin,
                   revokeReturned, pipeVars>>

(***************************************************************************)
(* Dashboard operations of the key service.                                *)
(***************************************************************************)
\* CreateKey: mint a token, hash it, insert the row with spend 0 and no
\* revocation.
CreateKey ==
    /\ admin.pc = "idle"
    /\ nadmin < MaxAdminOps
    /\ Len(dbKeys) < MaxKeys
    /\ nadmin' = nadmin + 1
    /\ \E userID \in Users, name \in KeyNames, allowed \in AllowedChoices,
          budget \in BudgetChoices, dbOk \in BOOLEAN :
         IF dbOk
         THEN dbKeys' = Append(dbKeys,
                  [user |-> userID, name |-> name,
                   hash |-> HashKey(GenerateVirtualKey(Len(dbKeys) + 1)),
                   allowed |-> allowed, budget |-> budget, spend |-> 0,
                   revoked |-> FALSE])
         ELSE UNCHANGED dbKeys
    /\ UNCHANGED <<dbProviders, dbDaily, cache, stdout, applied, req, admin, spendTasks, ledger, nreq,
                   revokeReturned, pipeVars>>

\* RevokeKey, UpdateKey and GetKey, after db.GetVirtualKeyByID: the key must
\* exist and belong to the caller.
VerifyOwnershipAnyUser(key, userID) ==
    IF key = None THEN "key not found" ELSE ""

VerifyOwnership(key, userID) ==
    IF key = None THEN "key not found"
    ELSE IF key.user # userID THEN "unauthorized"
    ELSE ""

\* The handlers of the dashboard API: the status written for the error the
\* key service returned.
StatusOf(err) ==
    CASE err = "" -> 200
      [] err = "key not found" -> 404
      [] err = "unauthorized" -> 403
      [] OTHER -> 500

\* The key service has returned err to the handler of the operation.
Returned(op, keyID, userID, err) ==
    [IdleAdmin EXCEPT !.pc = "returned", !.op = op, !.id = keyID, !.user = userID,
                      !.err = err, !.status = StatusOf(err)]

\* RevokeKey: db.GetVirtualKeyByID and the ownership check.
RevokeStart ==
    /\ admin.pc = "idle"
    /\ nadmin < MaxAdminOps
    /\ nadmin' = nadmin + 1
    /\ \E keyID \in KeyIds, userID \in Users, dbOk \in BOOLEAN :
         LET key == GetVirtualKeyByID(keyID)
             err == IF dbOk THEN VerifyOwnership(key, userID)
                    ELSE "failed to get virtual key"
         IN  admin' = IF err # "" THEN Returned("revoke", keyID, userID, err)
                      ELSE [IdleAdmin EXCEPT !.pc = "rv_db", !.op = "revoke", !.id = keyID,
                                             !.user = userID, !.hash = key.hash]
    /\ UNCHANGED <<dbKeys, dbProviders, dbDaily, cache, stdout, applied, req, spendTasks, ledger, nreq,
                   revokeReturned, pipeVars>>

\* RevokeKey: db.RevokeVirtualKey, `SET revoked_at = NOW()`.
RevokeDb ==
    /\ admin.pc = "rv_db"
    /\ \E dbOk \in BOOLEAN :
         IF dbOk
         THEN /\ dbKeys' = [dbKeys EXCEPT ![admin.id].revoked = TRUE]
              /\ admin' = [admin EXCEPT !.pc = "rv_cache"]
         ELSE /\ admin' = Returned("revoke", admin.id, admin.user,
                                   "failed to revoke virtual key")
              /\ UNCHANGED dbKeys
    /\ UNCHANGED <<dbProviders, dbDaily, cache, stdout, applied, req, spendTasks, ledger, nreq, nadmin,
                   revokeReturned, pipeVars>>

\* RevokeKey: cache.DeleteKeyConfig, whose failure is printed and swallowed;
\* RevokeKey returns nil.
RevokeCache ==
    /\ admin.pc = "rv_cache"
    /\ \E cacheOk \in BOOLEAN :
         cache' = IF cacheOk THEN [cache EXCEPT ![admin.hash] = None] ELSE cache
    /\ revokeReturned' = revokeReturned \cup {admin.id}
    /\ admin' = Returned("revoke", admin.id, admin.user, "")
    /\ UNCHANGED <<dbKeys, dbProviders, dbDaily, stdout, applied, req, spendTasks, ledger, nreq, nadmin,
                   pipeVars>>

\* The patches UpdateKey is called with: nothing, a name, allowed patterns
\* with a budget cap.
PatchInputs ==
    {NoPatch,
     [NoPatch EXCEPT !.hasName = TRUE, !.name = "n2"],
     [NoPatch EXCEPT !.hasAllowed = TRUE, !.allowed = <<PatternOpenAIAll>>,
                     !.hasBudget = TRUE, !.budget = 0]}

\* UpdateKey: db.GetVirtualKeyByID and the ownership check.
UpdateStart ==
    /\ admin.pc = "idle"
    /\ nadmin < MaxAdminOps
    /\ nadmin' = nadmin + 1
    /\ \E keyID \in KeyIds, userID \in Users, patch \in PatchInputs, dbOk \in BOOLEAN :
         LET key == GetVirtualKeyByID(keyID)
             err == IF dbOk THEN VerifyOwnership(key, userID)
                    ELSE "failed to get virtual key"
         IN  admin' = IF err # "" THEN Returned("update", keyID, userID, err)
                      ELSE [IdleAdmin EXCEPT !.pc = "up_db", !.op = "update", !.id = keyID,
                                             !.user = userID, !.hash = key.hash,
                                             !.patch = patch]
    /\ UNCHANGED <<dbKeys, dbProviders, dbDaily, cache, stdout, applied, req, spendTasks, ledger, nreq,
                   revokeReturned, pipeVars>>

\* An UpdateVirtualKey that writes all three columns, the absent ones as
\* their zero values.
UpdateVirtualKeyOverwriting(keys, id, patch) ==
    [keys EXCEPT ![id].name = patch.name, ![id].allowed = patch.allowed,
                 ![id].budget = IF patch.hasBudget THEN patch.budget ELSE NoLimit]

\* db.UpdateVirtualKey: the given fields are written, the others kept.
UpdateVirtualKey(keys, id, patch) ==
    [keys EXCEPT ![id].name = IF patch.hasName THEN patch.name ELSE @,
                 ![id].allowed = IF patch.hasAllowed THEN patch.allowed ELSE @,
                 ![id].budget = IF patch.hasBudget THEN patch.budget ELSE @]

\* UpdateKey: db.UpdateVirtualKey.
UpdateDb ==
    /\ admin.pc = "up_db"
    /\ \E dbOk \in BOOLEAN :
         IF dbOk
         THEN /\ dbKeys' = UpdateVirtualKey(dbKeys, admin.id, admin.patch)
              /\ admin' = [admin EXCEPT !.pc = "up_cache"]
         ELSE /\ admin' = Returned("update", admin.id, admin.user,
                                   "failed to update virtual key")
              /\ UNCHANGED dbKeys
    /\ UNCHANGED <<dbProviders, dbDaily, cache, stdout, applied, req, spendTasks, ledger, nreq, nadmin,
                   revokeReturned, pipeVars>>

\* UpdateKey: cache.DeleteKeyConfig, whose failure is printed and swallowed;
\* UpdateKey returns nil.
UpdateCache ==
    /\ admin.pc = "up_cache"
    /\ \E cacheOk \in BOOLEAN :
         cache' = IF cacheOk THEN [cache EXCEPT ![admin.hash] = None] ELSE cache
    /\ admin' = Returned("update", admin.id, admin.user, "")
    /\ UNCHANGED <<dbKeys, dbProviders, dbDaily, stdout, applied, req, spendTasks, ledger, nreq, nadmin,
                   revokeReturned, pipeVars>>

\* GetKey: db.GetVirtualKeyByID and the ownership check.
GetKey ==
    /\ admin.pc = "idle"
    /\ nadmin < MaxAdminOps
    /\ nadmin' = nadmin + 1
    /\ \E keyID \in KeyIds, userID \in Users, dbOk \in BOOLEAN :
         LET key == GetVirtualKeyByID(keyID)
             err == IF dbOk THEN VerifyOwnership(key, userID)
                    ELSE "failed to get virtual key"
         IN  admin' = Returned("get", keyID, userID, err)
    /\ UNCHANGED <<dbKeys, dbProviders, dbDaily, cache, stdout, applied, req, spendTasks, ledger, nreq,
                   revokeReturned, pipeVars>>

\* The handler of RevokeKey, UpdateKey or GetKey writes the response.
AdminRespond ==
    /\ admin.pc = "returned"
    /\ admin' = IdleAdmin
    /\ UNCHANGED <<dbKeys, dbProviders, dbDaily, cache, stdout, applied, req, spendTasks, ledger, nreq,
                   nadmin, revokeReturned, pipeVars>>

\* SetUserProvider: Encrypt and db.SetUserProvider (upsert on user, provider).
SetProviderStart ==
    /\ admin.pc = "idle"
    /\ nadmin < MaxAdminOps
    /\ nadmin' = nadmin + 1
    /\ \E userID \in Users, provider \in ProviderKinds, apiKey \in Secrets,
          dbOk \in BOOLEAN :
         IF dbOk
         THEN /\ dbProviders' = [dbProviders EXCEPT ![userID][provider] = Encrypt(apiKey)]
              /\ admin' = [IdleAdmin EXCEPT !.pc = "inv_list", !.op = "set", !.user = userID]
         ELSE UNCHANGED <<dbProviders, admin>>
    /\ UNCHANGED <<dbKeys, dbDaily, cache, stdout, applied, req, spendTasks, ledger, nreq,
                   revokeReturned, pipeVars>>

\* RemoveUserProvider: db.RemoveUserProvider (delete on user, provider).
RemoveProviderStart ==
    /\ admin.pc = "idle"
    /\ nadmin < MaxAdminOps
    /\ nadmin' = nadmin + 1
    /\ \E userID \in Users, provider \in ProviderKinds, dbOk \in BOOLEAN :
         IF dbOk
         THEN /\ dbProviders' = [dbProviders EXCEPT ![userID][provider] = ""]
              /\ admin' = [IdleAdmin EXCEPT !.pc = "inv_list", !.op = "remove", !.user = userID]
         ELSE UNCHANGED <<dbProviders, admin>>
    /\ UNCHANGED <<dbKeys, dbDaily, cache, stdout, applied, req, spendTasks, ledger, nreq,
                   revokeReturned, pipeVars>>

\* invalidateUserKeyCache: db.ListVirtualKeysByUser; its failure is printed by
\* the caller and swallowed.
InvalidateList ==
    /\ admin.pc = "inv_list"
    /\ \E dbOk \in BOOLEAN :
         LET keys == ListVirtualKeysByUser(admin.user)
         IN  IF dbOk /\ keys # <<>>
             THEN admin' = [admin EXCEPT !.pc = "inv_del", !.todo = keys]
             ELSE admin' = IdleAdmin
    /\ UNCHANGED <<dbKeys, dbProviders, dbDaily, cache, stdout, applied, req, spendTasks, ledger, nreq,
                   nadmin, revokeReturned, pipeVars>>

\* invalidateUserKeyCache: one turn of the loop, cache.DeleteKeyConfig of the
\* next listed key, its failure printed and swallowed.
InvalidateDelete ==
    /\ admin.pc = "inv_del"
    /\ \E cacheOk \in BOOLEAN :
         cache' = IF cacheOk THEN [cache EXCEPT ![Head(admin.todo).hash] = None] ELSE cache
    /\ admin' = IF Len(admin.todo) = 1 THEN IdleAdmin
                ELSE [admin EXCEPT !.todo = Tail(admin.todo)]
    /\ UNCHANGED <<dbKeys, dbProviders, dbDaily, stdout, applied, req, spendTasks, ledger, nreq, nadmin,
                   revokeReturned, pipeVars>>

\* The store the process starts on holds a provider row (an openai one)
\* sealed under another master key than cfg.EncryptionKey.
ForeignProviderRow ==
    /\ nadmin = 0 /\ nreq = 0
    /\ \A u \in Users, k \in ProviderKinds : dbProviders[u][k] = ""
    /\ \E u \in Users :
         dbProviders' = [dbProviders EXCEPT ![u][ProviderOpenAI] = "gcm:?"]
    /\ UNCHANGED <<dbKeys, dbDaily, cache, stdout, applied, req, admin, spendTasks, ledger, nreq,
                   nadmin, revokeReturned, pipeVars>>

\* Redis expires a key_config entry (keyConfigTTL, one hour).
CacheExpire(h) ==
    /\ cache[h] # None
    /\ cache' = [cache EXCEPT ![h] = None]
    /\ UNCHANGED <<dbKeys, dbProviders, dbDaily, stdout, applied, req, admin, spendTasks, ledger, nreq,
                   nadmin, revokeReturned, pipeVars>>

(***************************************************************************)
(* Functions without side effects, applied to inputs of their domain.       *)
(***************************************************************************)
fnRest == <<dbKeys, dbProviders, dbDaily, cache, stdout, req, admin, spendTasks,
            nreq, nadmin, revokeReturned, ledger, pipeVars>>

ModelHaiku ==
    ProviderAnthropic \o <<"/", "c", "l", "a", "u", "d", "e", "-", "3", "-", "h", "a",
                           "i", "k", "u", "-", "2", "0", "2", "4", "0", "3", "0", "7">>

\* IsModelAllowed on keys with up to two patterns.  The patterns: every
\* model, a provider, a model family of any provider, a name ending, a name
\* with one free character, one model.
ApplyIsModelAllowed ==
    /\ LET patterns ==
              {<<"*">>, PatternOpenAIAll, <<"*", "/", "g", "p", "t", "-", "4", "*">>,
               <<"*", "4", "o">>, ProviderOpenAI \o <<"?", "g", "p", "t", "-", "4", "o">>,
               ModelGpt4o}
       IN  \E allowed \in {<<>>} \cup {<<p>> : p \in patterns}
                           \cup {<<p, q>> : p \in patterns, q \in patterns},
              model \in {ModelGpt4o, ModelHaiku, ModelMistral} :
             applied' = [fn |-> "IsModelAllowed", args |-> <<allowed, model>>,
                         result |-> IsModelAllowed([allowed |-> allowed], model)]
    /\ UNCHANGED fnRest

\* CheckBudget on keys without and with a cap.
ApplyCheckBudget ==
    /\ \E budget \in {NoLimit, 0, 3, 6}, spend \in 0..6, estimatedCost \in 0..6 :
         applied' = [fn |-> "CheckBudget", args |-> <<budget, spend, estimatedCost>>,
                     result |-> CheckBudget([budget |-> budget, spend |-> spend],
                                            estimatedCost)]
    /\ UNCHANGED fnRest

\* Model names of every row of the rate table, for each provider.
PricedNames ==
    {<<"g", "p", "t", "-", "4", "o">>, <<"g", "p", "t", "-", "4", "o", "-", "m">>,
     <<"g", "p", "t", "-", "4">>, <<"g", "p", "t", "-", "3", ".", "5">>,
     <<"o", "1">>, <<"x", "-", "o", "1">>, <<"o", "p", "u", "s">>,
     <<"c", "-", "o", "p", "u", "s", "-", "s", "o", "n", "n", "e", "t">>,
     <<"c", "-", "s", "o", "n", "n", "e", "t">>, <<"c", "-", "h", "a", "i", "k", "u">>,
     <<"m", "7">>}

\* calculateCost on a model given with and without its provider prefix.
ApplyCalculateCost ==
    /\ \E provider \in ProviderKinds \cup {<<"m", "i", "s", "t", "r", "a", "l">>},
          name \in PricedNames, prefixed \in BOOLEAN,
          prompt \in {0, 10}, completion \in {0, 20} :
         LET model == IF prefixed THEN provider \o <<"/">> \o name ELSE name
         IN  applied' = [fn |-> "calculateCost",
                         args |-> <<provider, name, prompt, completion>>,
                         result |-> calculateCost(provider, model,
                                       [prompt |-> prompt, completion |-> completion])]
    /\ UNCHANGED fnRest

\* SearchLogs: the page size handed to Pipeline.Search for a "size" query
\* parameter.  The parameter is absent (""), text strconv.Atoi rejects, or
\* the decimal text of the integer n.
SearchSize(s) ==
    IF s.kind = "number" /\ s.n <= 100 THEN s.n ELSE 20

ApplySearchSize ==
    /\ \E s \in {[kind |-> "", n |-> 0], [kind |-> "text", n |-> 0]}
                 \cup {[kind |-> "number", n |-> n] :
                          n \in {-1, 0, 1, 20, 99, 100, 101, 500}} :
         applied' = [fn |-> "SearchSize", args |-> <<s>>, result |-> SearchSize(s)]
    /\ UNCHANGED fnRest

\* JWTManager.ValidateToken.  A session token is its signature, its user and
\* its expiry: the signature must be the HMAC under the manager's secret and
\* the expiry must not have passed.
ValidateToken(tokenString) ==
    IF Len(tokenString) = 3 /\ tokenString[1] = "hs256:secret" /\ tokenString[3] = "live"
    THEN [ok |-> TRUE, userID |-> tokenString[2]]
    ELSE [ok |-> FALSE, userID |-> ""]

\* JWTMiddleware: the token of the `token` cookie, else of the Authorization
\* header; 401 without a token or with one ValidateToken rejects, else the
\* next handler runs with the token's user.
JWTMiddleware(cookie, authHeader) ==
    LET fromCookie == IF cookie.present THEN cookie.value ELSE <<>>
        tokenString == IF fromCookie # <<>> THEN fromCookie
                       ELSE IF HasPrefix(authHeader, BearerPrefix)
                       THEN TrimPrefix(authHeader, BearerPrefix)
                       ELSE <<>>
        claims == ValidateToken(tokenString)
    IN  IF tokenString = <<>> \/ ~claims.ok
        THEN [status |-> 401, userID |-> ""]
        ELSE [status |-> 200, userID |-> claims.userID]

\* JWTMiddleware on requests with and without a cookie and a header, the
\* tokens valid, expired, signed with another secret, or empty.
ApplyJWTMiddleware ==
    /\ LET tokens == {<<"hs256:secret", "u1", "live">>, <<"hs256:secret", "u2", "live">>,
                      <<"hs256:secret", "u1", "expired">>, <<"hs256:other", "u1", "live">>,
                      <<>>}
       IN  \E cookie \in {[present |-> FALSE, value |-> <<>>]}
                          \cup {[present |-> TRUE, value |-> t] : t \in tokens},
              authHeader \in {<<>>} \cup {BearerPrefix \o t : t \in tokens}
                             \cup {<<"B", "a", "s", "i", "c", " ">> \o t : t \in tokens} :
             applied' = [fn |-> "JWTMiddleware", args |-> <<cookie, authHeader>>,
                         result |-> JWTMiddleware(cookie, authHeader)]
    /\ UNCHANGED fnRest

\* Encrypt and Decrypt on bytes.  A byte is 0 or 1; the nonce has NonceSize
\* bytes (gcm.NonceSize() is 12), plaintexts have up to MaxPlain bytes.
NonceSize == 2
MaxPlain == 2

\* The authentication tag of AES-GCM under the master key, taken as a perfect
\* digest of nonce and ciphertext: different inputs have different tags.
RECURSIVE Tag(_)
Tag(bytes) == IF bytes = <<>> THEN 1 ELSE 2 * Tag(SubSeq(bytes, 1, Len(bytes) - 1))
                                          + bytes[Len(bytes)]

\* The key stream of AES-GCM under the master key for a nonce, at byte i.
KeyStream(nonce, i) == (nonce[((i - 1) % NonceSize) + 1] + i) % 2

\* gcm.Seal(dst, nonce, plaintext, nil) without dst: the encrypted bytes and
\* the tag.
gcmSeal(nonce, plaintext) ==
    LET body == [i \in 1..Len(plaintext) |-> (plaintext[i] + KeyStream(nonce, i)) % 2]
    IN  Append(body, Tag(nonce \o body))

\* gcm.Open that returns the decrypted bytes without comparing the tag.
gcmOpenUnverified(nonce, ciphertext) ==
    IF Len(ciphertext) < 1 THEN [ok |-> FALSE, plaintext |-> <<>>]
    ELSE LET body == SubSeq(ciphertext, 1, Len(ciphertext) - 1)
         IN  [ok |-> TRUE,
              plaintext |-> [i \in 1..Len(body) |-> (body[i] + KeyStream(nonce, i)) % 2]]

\* gcm.Open(nil, nonce, ciphertext, nil): fails on a ciphertext shorter than
\* the tag and on a tag that is not the one of nonce and body.
gcmOpen(nonce, ciphertext) ==
    IF Len(ciphertext) < 1 THEN [ok |-> FALSE, plaintext |-> <<>>]
    ELSE LET body == SubSeq(ciphertext, 1, Len(ciphertext) - 1)
         IN  IF ciphertext[Len(ciphertext)] # Tag(nonce \o body)
             THEN [ok |-> FALSE, plaintext |-> <<>>]
             ELSE [ok |-> TRUE,
                   plaintext |-> [i \in 1..Len(body) |->
                                     (body[i] + KeyStream(nonce, i)) % 2]]

\* Encrypt with the nonce rand.Reader gave: the nonce, then what Seal returns.
EncryptBytes(nonce, plaintext) == nonce \o gcmSeal(nonce, plaintext)

\* Decrypt: the length check, the split at the nonce size, gcm.Open.
DecryptBytes(ciphertext) ==
    IF Len(ciphertext) < NonceSize THEN [ok |-> FALSE, plaintext |-> <<>>]
    ELSE gcmOpen(SubSeq(ciphertext, 1, NonceSize),
                 SubSeq(ciphertext, NonceSize + 1, Len(ciphertext)))

ApplyEncrypt ==
    /\ \E nonce \in [1..NonceSize -> 0..1],
          plaintext \in UNION {[1..n -> 0..1] : n \in 0..MaxPlain} :
         applied' = [fn |-> "Encrypt", args |-> <<plaintext>>,
                     result |-> EncryptBytes(nonce, plaintext)]
    /\ UNCHANGED fnRest

\* What Decrypt is given after an Encrypt: the ciphertext itself, one of its
\* proper prefixes, or the ciphertext with one byte (or the tag) replaced.
Presented(sealed) ==
    {sealed} \cup {SubSeq(sealed, 1, n) : n \in 0..(Len(sealed) - 1)}
             \cup {[sealed EXCEPT ![k] = v] : k \in 1..Len(sealed), v \in 0..(2 ^ Len(sealed))}

ApplyDecrypt ==
    /\ applied.fn = "Encrypt"
    /\ \E ciphertext \in Presented(applied.result) :
         applied' = [fn |-> "Decrypt",
                     args |-> <<applied.args[1], applied.result, ciphertext>>,
                     result |-> DecryptBytes(ciphertext)]
    /\ UNCHANGED fnRest

(***************************************************************************)
(* Specifications.                                                         *)
(***************************************************************************)
Init == InitKeys /\ InitPipe

NextKeys ==
    \/ \E p \in Procs : ReqStart(p)
    \/ \E p \in Procs : ReqDbKey(p)
    \/ \E p \in Procs : ReqDbProviders(p)
    \/ \E p \in Procs : ReqCacheSet(p)
    \/ \E p \in Procs : ReqPolicy(p)
    \/ \E p \in Procs : ReqUpstream(p)
    \/ \E p \in Procs : ReqWrite(p)
    \/ \E p \in Procs : ReqStreamEnd(p)
    \/ SpendIncrement
    \/ SpendUpsert
    \/ CreateKey
    \/ RevokeStart
    \/ RevokeDb
    \/ RevokeCache
    \/ UpdateStart
    \/ UpdateDb
    \/ UpdateCache
    \/ GetKey
    \/ AdminRespond
    \/ SetProviderStart
    \/ RemoveProviderStart
    \/ InvalidateList
    \/ InvalidateDelete
    \/ ForeignProviderRow
    \/ \E h \in Hashes : CacheExpire(h)

\* The key service and the proxy; the pipeline is the channel Log writes to.
Spec == Init /\ [][NextKeys]_vars

\* The steps of the pipeline's goroutines while it runs.
PipeRunSteps ==
    \/ \E w \in Workers : WorkerRecv(w)
    \/ \E w \in Workers : AddLock(w)
    \/ \E w \in Workers : AddAppend(w)
    \/ \E t \in Tasks : FlushLock(t)
    \/ \E t \in Tasks : FlushSwap(t)
    \/ \E t \in Tasks : BulkIndex(t)
    \/ Tick

\* The steps of Close and of the goroutines' reaction to it.
PipeCloseSteps ==
    \/ \E w \in Workers : WorkerChanClosed(w)
    \/ \E w \in Workers : WorkerDone(w)
    \/ FlusherDone
    \/ CloseDone
    \/ CloseChan
    \/ CloseWait

NextPipe == LogUpTo(MaxEntries) \/ PipeRunSteps \/ PipeCloseSteps

NextPipeRun == LogUpTo(MaxRunEntries) \/ PipeRunSteps

NextPipeLive == LogUpTo(MaxLiveEntries) \/ PipeRunSteps

\* UpdateSpend under concurrent callers: keys are created and UpdateSpend is
\* called on them, every call a goroutine of its own.
NextSpend ==
    \/ CreateKey
    \/ UpdateSpendCall
    \/ SpendIncrement
    \/ SpendUpsert

SpecSpend == Init /\ [][NextSpend]_vars

\* The functions without side effects, each applied to every input.
NextFn ==
    \/ ApplyIsModelAllowed
    \/ ApplyCheckBudget
    \/ ApplyCalculateCost
    \/ ApplySearchSize
    \/ ApplyJWTMiddleware
    \/ ApplyEncrypt
    \/ ApplyDecrypt

SpecFn == Init /\ [][NextFn]_vars

\* The log pipeline from New to the return of Close.
SpecPipe == Init /\ [][NextPipe]_vars

\* The log pipeline while it runs (Close is not called).
SpecPipeRun == Init /\ [][NextPipeRun]_vars

\* The running pipeline under fair scheduling: every goroutine that can take
\* a step eventually does, the ticker keeps firing, bulkIndex returns (the
\* http client has a 30 s timeout), and a goroutine waiting for batchMu
\* eventually gets it (sync.Mutex hands the lock to starving waiters).
PipeFairness ==
    /\ \A w \in Workers : WF_vars(WorkerRecv(w))
    /\ \A w \in Workers : SF_vars(AddLock(w))
    /\ \A w \in Workers : WF_vars(AddAppend(w))
    /\ \A t \in Tasks : SF_vars(FlushLock(t))
    /\ \A t \in Tasks : WF_vars(FlushSwap(t))
    /\ \A t \in Tasks : WF_vars(BulkIndex(t))
    /\ WF_vars(Tick)

SpecPipeLive == Init /\ [][NextPipeLive]_vars /\ PipeFairness

(***************************************************************************)
(* Claims about the key service and the proxy.                             *)
(***************************************************************************)
\* C1: once RevokeKey has returned nil for a key, no ValidateKey call that
\* returns afterwards yields a KeyConfig of that key, on the cache-hit path
\* or the cache-miss path, whether or not the cache delete succeeded.
C1_RevokedNeverValidates == \A p \in Procs : ~req[p].late

\* C2: no request is dispatched upstream with a key whose budget cap is set
\* and whose spend plus the estimated cost (0 at admission) exceeds the cap.
C2_BudgetCheckedBeforeDispatch ==
    \A p \in Procs : req[p].pc = "upstream" => CheckBudget(req[p].cfg, 0)

\* C3: a plaintext provider secret is in no line the process prints and in
\* no row of the relational store.
C3_SecretNeverPrintedOrStored ==
    /\ stdout \cap Secrets = {}
    /\ \A u \in Users, k \in ProviderKinds : dbProviders[u][k] \notin Secrets

\* The provider secrets a KeyConfig of user u built now would carry.
CurrentProviders(u) ==
    [k \in GetUserProviders(u) |-> Decrypt(dbProviders[u][k]).plaintext]

\* C4: when SetUserProvider or RemoveUserProvider has returned (no dashboard
\* operation is in progress), every KeyConfig the cache holds carries its
\* owner's current provider secrets, also with ValidateKey calls running
\* concurrently with the change.
C4_NoStaleConfigAfterProviderChange ==
    admin.pc = "idle" =>
        \A h \in Hashes :
            cache[h] # None => cache[h].providers = CurrentProviders(cache[h].userID)

\* C5: an error of the cache read in ValidateKey is not the outcome of the
\* call: ValidateKey goes on to the durable store as on a miss, so no request
\* is answered with the cache's error.
C5_CacheErrorFallsBack == \A p \in Procs : req[p].err # "cache error"

\* C11: every UpdateSpend call attempts both statements: a call whose spend
\* increment has been attempted (failed or not) goes on to the daily-stat
\* upsert, and a failed upsert leaves the incremented spend as it is.
C11_BothStatementsAttempted ==
    [][/\ \A t \in spendTasks :
            (t.pc = "spend" /\ t \notin spendTasks') =>
                [t EXCEPT !.pc = "daily"] \in spendTasks'
       /\ \A t \in spendTasks :
            (t.pc = "daily" /\ t \notin spendTasks') => dbKeys' = dbKeys]_vars

\* No UpdateSpend call on key k is in progress.
SpendSettled(k) == \A t \in spendTasks : t.key # k

C13_RevokedReportedAsRevoked ==
    [][\A p \in Procs :
         (/\ req[p].pc = "vk_key"
          /\ \E i \in revokeReturned : dbKeys[i].hash = req[p].hash
          /\ req'[p].pc = "done"
          /\ req'[p].err # "database error")
         => req'[p].err = "key revoked"]_vars

\* C14: within a request, UpdateSpend is started and the log entry submitted
\* only when the writing of the response to the client has begun.
C14_ResponseBeforeSideEffects ==
    \A p \in Procs : (req[p].spends > 0 \/ req[p].logs > 0) => req[p].written

\* The request of p has been answered by the gateway itself before any
\* upstream call: 401, 400 or 403 with an error message.
Rejected(r) == r.pc = "done" /\ r.err # "" /\ r.status \in {400, 401, 403}

\* The request of p has passed admission.
Admitted(r) == r.pc \in {"upstream", "write", "stream"} \/ (r.pc = "done" /\ ~Rejected(r))

\* C15: a request rejected before dispatch has made no upstream call, has
\* submitted no log entry and has started no spend update, and the step that
\* rejects it changes neither the spend tasks, the log channel nor the store;
\* an admitted request has made exactly one upstream call.
C15_RejectedHasNoEffects ==
    /\ [](\A p \in Procs :
            /\ Rejected(req[p]) =>
                  req[p].calls = 0 /\ req[p].logs = 0 /\ req[p].spends = 0
            /\ Admitted(req[p]) => req[p].calls = 1)
    /\ [][\A p \in Procs :
            (req'[p] # req[p] /\ Rejected(req'[p])) =>
                /\ spendTasks' = spendTasks /\ ledger' = ledger
                /\ logChan' = logChan /\ dropped' = dropped
                /\ dbKeys' = dbKeys /\ dbDaily' = dbDaily]_vars

\* A request refused for its model, after an earlier request of the same
\* behaviour was forwarded and logged.
C15_Witness ==
    \E p \in Procs :
        /\ Rejected(req[p]) /\ req[p].status = 403 /\ req[p].err = "model not allowed"
        /\ Len(logChan) = 1

\* The bodies that reach the provider split: readable JSON whose model has
\* the form provider/model.
SplitBodies == {b \in BodyInputs : b.readable /\ b.json /\ parseModel(b.model).ok}

\* C16: whatever KeyConfig ValidateKey returned to a request (its allowed
\* patterns, its provider credentials), a body whose model names a provider
\* other than openai and anthropic is answered with 400.
C16_UnknownProviderIs400 ==
    \A p \in Procs :
        req[p].pc = "body" =>
            \A path \in Routes, b \in SplitBodies :
                parseModel(b.model).provider \notin ProviderKinds =>
                    Admission(req[p].cfg, path, b).status = 400

\* C17: whatever KeyConfig ValidateKey returned to a request on the route
\* whose upstream path is /v1/messages, every body the handler admits is sent
\* to the Anthropic base URL, path /v1/messages, with the x-api-key header and
\* the anthropic credential, whatever provider its model names.
C17_AnthropicRouteForcesAnthropic ==
    \A p \in Procs :
        req[p].pc = "body" =>
            \A b \in BodyInputs :
                LET a == Admission(req[p].cfg, "/v1/messages", b)
                IN  a.status = 0 =>
                        /\ a.call.base = anthropicBaseURL
                        /\ a.call.path = "/v1/messages"
                        /\ a.call.header = "x-api-key"
                        /\ a.call.provider = ProviderAnthropic

\* Request p is a streaming one that has been dispatched.
Streaming(p) ==
    \/ req[p].pc = "upstream" /\ req[p].call.stream
    \/ req[p].pc = "stream"

\* C18: a streaming request starts no UpdateSpend and changes neither the
\* key's spend nor its daily rollup; when its stream ends (EOF or read
\* error) it submits exactly one log entry, with the content
\* "[streaming response]", no tokens and cost 0.
C18_StreamingLogsZeroCost ==
    /\ [](\A p \in Procs : req[p].pc = "stream" => req[p].logs = 0 /\ req[p].spends = 0)
    /\ [][\A p \in Procs :
            (Streaming(p) /\ req'[p] # req[p]) =>
                /\ spendTasks' = spendTasks /\ ledger' = ledger
                /\ dbKeys' = dbKeys /\ dbDaily' = dbDaily
                /\ req'[p].spends = 0
                /\ req[p].pc = "stream" =>
                      /\ req'[p].pc = "done" /\ req'[p].logs = 1
                      /\ req'[p].entry.trace = req[p].trace
                      /\ req'[p].entry.content = "[streaming response]"
                      /\ req'[p].entry.tokens = 0 /\ req'[p].entry.cost = 0
                      /\ \/ logChan' = Append(logChan, req[p].trace)
                         \/ dropped' = dropped \cup {req[p].trace}]_vars

\* A stream of a completion that carried usage broke off with a read error
\* and has been logged.
C18_Witness ==
    \E p \in Procs :
        /\ req[p].pc = "done" /\ req[p].body = BodyPartial /\ req[p].status = 200
        /\ req[p].logs = 1 /\ req[p].entry.cost = 0
        /\ \E i \in 1..Len(logChan) : logChan[i] = req[p].trace

\* Request p has read a buffered upstream response in full.
BufferedRead(r) == r.pc = "write" \/ (r.pc = "done" /\ r.spends > 0)

C20_BufferedPassThrough ==
    /\ [](\A p \in Procs :
            (/\ BufferedRead(req[p])
             /\ (IF req[p].pc = "write" THEN req[p].resp.body ELSE req[p].body)
                    \in {BodyNoUsage, BodyNotJSON}) =>
                req[p].entry.tokens = 0 /\ req[p].entry.cost = 0)
    /\ [][\A p \in Procs :
            (req[p].pc = "write" /\ req'[p] # req[p]) =>
                /\ req'[p].pc = "done" /\ req'[p].written
                /\ req'[p].status = req[p].resp.status
                /\ req'[p].body = req[p].resp.body
                /\ req'[p].err = ""]_vars

\* The client has received an upstream 500 whose body is no JSON.
C20_Witness ==
    \E p \in Procs :
        /\ req[p].pc = "done" /\ req[p].spends = 1
        /\ req[p].status = 500 /\ req[p].body = BodyNotJSON
        /\ req[p].entry.cost = 0

\* Glob matching in which `*` stands for any run of characters and `?` for
\* any one character.
RECURSIVE GlobAnyRun(_, _)
GlobAnyRun(pattern, name) ==
    IF pattern = <<>> THEN name = <<>>
    ELSE IF Head(pattern) = "*"
    THEN \E k \in 0..Len(name) :
            GlobAnyRun(Tail(pattern), SubSeq(name, k + 1, Len(name)))
    ELSE IF Head(pattern) = "?"
    THEN name # <<>> /\ GlobAnyRun(Tail(pattern), Tail(name))
    ELSE name # <<>> /\ Head(name) = Head(pattern)
         /\ GlobAnyRun(Tail(pattern), Tail(name))

\* C21: IsModelAllowed(c, m) is true iff c has no allowed patterns, or one of
\* them is `*`, glob-matches m (`*` any run, `?` any one character), or ends
\* in `*` with its un-starred part a literal prefix of m; `openai/*` admits
\* openai/gpt-4o and rejects anthropic/claude-3-haiku-20240307.
C21_AllowedIffGlobOrPrefix ==
    applied.fn = "IsModelAllowed" =>
        LET allowed == applied.args[1]
            m == applied.args[2]
        IN  /\ applied.result =
                 (\/ allowed = <<>>
                  \/ \E i \in 1..Len(allowed) :
                        \/ allowed[i] = <<"*">>
                        \/ GlobAnyRun(allowed[i], m)
                        \/ /\ HasSuffix(allowed[i], <<"*">>)
                           /\ HasPrefix(m, TrimSuffix(allowed[i], <<"*">>)))
            /\ allowed = <<PatternOpenAIAll>> /\ m = ModelGpt4o => applied.result
            /\ allowed = <<PatternOpenAIAll>> /\ m = ModelHaiku => ~applied.result

\* C22: CheckBudget reports budget-exceeded iff a cap is set and current
\* spend plus the estimate is above it, and succeeds otherwise, always when
\* no cap is set; with cap 0 and spend 0 it accepts an estimate of 0 and
\* rejects every estimate above 0.
C22_BudgetExceededIffOverCap ==
    applied.fn = "CheckBudget" =>
        LET cap == applied.args[1]
            spend == applied.args[2]
            est == applied.args[3]
        IN  /\ ~applied.result <=> (cap # NoLimit /\ spend + est > cap)
            /\ cap = NoLimit => applied.result
            /\ cap = 0 /\ spend = 0 => (applied.result <=> est = 0)

C22_Witness ==
    /\ applied.fn = "CheckBudget"
    /\ applied.args[1] = 0 /\ applied.args[2] = 0 /\ applied.args[3] > 0
    /\ ~applied.result

\* The rate table as the claim gives it: rows in order, the last the default;
\* prices per million tokens in 1e-2 USD.
RateTable(provider) ==
    IF provider = ProviderOpenAI
    THEN << [on |-> "prefix", text |-> <<"g", "p", "t", "-", "4", "o">>, input |-> 250, output |-> 1000],
            [on |-> "prefix", text |-> <<"g", "p", "t", "-", "4">>, input |-> 3000, output |-> 6000],
            [on |-> "prefix", text |-> <<"g", "p", "t", "-", "3", ".", "5">>, input |-> 50, output |-> 150],
            [on |-> "prefix", text |-> <<"o", "1">>, input |-> 1500, output |-> 6000],
            [on |-> "prefix", text |-> <<>>, input |-> 100, output |-> 200] >>
    ELSE IF provider = ProviderAnthropic
    THEN << [on |-> "contains", text |-> <<"o", "p", "u", "s">>, input |-> 1500, output |-> 7500],
            [on |-> "contains", text |-> <<"s", "o", "n", "n", "e", "t">>, input |-> 300, output |-> 1500],
            [on |-> "contains", text |-> <<"h", "a", "i", "k", "u">>, input |-> 25, output |-> 125],
            [on |-> "prefix", text |-> <<>>, input |-> 300, output |-> 1500] >>
    ELSE << [on |-> "prefix", text |-> <<>>, input |-> 100, output |-> 200] >>

RowMatches(row, name) ==
    IF row.on = "prefix" THEN HasPrefix(name, row.text) ELSE Contains(name, row.text)

\* C23: the cost of a buffered response is prompt tokens times the input price
\* plus completion tokens times the output price, over 1,000,000, the prices
\* those of the first row of the rate table that matches the un-prefixed model
\* name; openai/gpt-4o with 10 prompt and 20 completion tokens costs 2.25e-4
\* USD (22500 in 1e-8 USD).
C23_CostFromFirstMatchingRate ==
    applied.fn = "calculateCost" =>
        LET provider == applied.args[1]
            name == applied.args[2]
            prompt == applied.args[3]
            completion == applied.args[4]
            table == RateTable(provider)
            first == CHOOSE i \in 1..Len(table) :
                        /\ RowMatches(table[i], name)
                        /\ \A j \in 1..(i - 1) : ~RowMatches(table[j], name)
        IN  /\ applied.result = prompt * table[first].input
                                + completion * table[first].output
            /\ provider = ProviderOpenAI /\ name = <<"g", "p", "t", "-", "4", "o">>
               /\ prompt = 10 /\ completion = 20 => applied.result = 22500

C23_Witness ==
    /\ applied.fn = "calculateCost"
    /\ applied.args = <<ProviderOpenAI, <<"g", "p", "t", "-", "4", "o">>, 10, 20>>
    /\ applied.result = 22500

\* C28: on GET /api/logs the size is clamped to at most 100: a requested size
\* above 100 gives a search of size 100, a requested size of at most 100 is
\* used as given, and the size handed to the search never exceeds 100.
C28_SizeClampedTo100 ==
    applied.fn = "SearchSize" =>
        LET s == applied.args[1]
        IN  /\ applied.result <= 100
            /\ s.kind = "number" /\ s.n > 100 => applied.result = 100
            /\ s.kind = "number" /\ s.n <= 100 => applied.result = s.n

\* The request of p ended because the upstream could not be reached.
Unreached(r) == r.pc = "done" /\ r.err = "failed to reach upstream"

\* C29: when the upstream transport fails the client receives 502, the
\* request was sent once (no handler ever sends its request a second time),
\* and neither a log entry nor a spend update is produced: the handler
\* submitted none, and the step that answers changes neither the spend tasks,
\* the log channel nor the store.
C29_UnreachableIs502Once ==
    /\ [](\A p \in Procs :
            /\ req[p].calls <= 1
            /\ Unreached(req[p]) =>
                  /\ req[p].status = 502 /\ req[p].written
                  /\ req[p].calls = 1 /\ req[p].logs = 0 /\ req[p].spends = 0)
    /\ [][\A p \in Procs :
            (req[p].pc = "upstream" /\ req'[p].pc # "upstream" /\ Unreached(req'[p])) =>
                /\ spendTasks' = spendTasks /\ ledger' = ledger
                /\ logChan' = logChan /\ dropped' = dropped
                /\ dbKeys' = dbKeys /\ dbDaily' = dbDaily]_vars

\* An unreachable upstream, after an earlier request of the same behaviour
\* was forwarded and logged.
C29_Witness ==
    \E p \in Procs : Unreached(req[p]) /\ req[p].status = 502 /\ Len(logChan) = 1

\* C24: RevokeKey, UpdateKey and GetKey called by a user who does not own the
\* key fail with `unauthorized`, answered 403, and called on a key that does
\* not exist fail with `key not found`, answered 404 (500 is the answer only
\* when the store failed to look the key up); the key records and the cache
\* are left as they were.
C24_ForeignOrMissingKeyRefused ==
    [][(/\ admin.pc = "idle" /\ admin'.pc # "idle"
        /\ admin'.op \in {"revoke", "update", "get"}
        /\ \/ GetVirtualKeyByID(admin'.id) = None
           \/ GetVirtualKeyByID(admin'.id).user # admin'.user) =>
            /\ admin'.pc = "returned"
            /\ IF admin'.err = "failed to get virtual key" THEN admin'.status = 500
               ELSE IF GetVirtualKeyByID(admin'.id) = None
               THEN admin'.err = "key not found" /\ admin'.status = 404
               ELSE admin'.err = "unauthorized" /\ admin'.status = 403
            /\ dbKeys' = dbKeys /\ cache' = cache]_vars

\* RevokeKey refused with 403 on a key that has a cache entry.
C24_Witness ==
    /\ admin.pc = "returned" /\ admin.op = "revoke" /\ admin.status = 403
    /\ admin.id \in 1..Len(dbKeys)
    /\ cache[dbKeys[admin.id].hash] # None
    /\ ~dbKeys[admin.id].revoked

\* C25: once UpdateKey has returned (no dashboard operation is in progress), a
\* ValidateKey call that starts on the key's token and returns a KeyConfig
\* returns one with the name, allowed patterns and budget cap of the key's
\* record, whatever ValidateKey calls ran concurrently with the update.
C25_ValidateSeesPatch ==
    [][\A p \in Procs :
         (/\ admin.pc \in {"idle", "returned"}
          /\ req[p].pc \in {"idle", "done"}
          /\ req'[p].pc = "body") =>
             LET config == req'[p].cfg
                 key == GetVirtualKeyByID(config.keyID)
             IN  /\ config.name = key.name
                 /\ config.allowed = key.allowed
                 /\ config.budget = key.budget]_vars

\* C26: CreateKey persists a record with spend 0 and no revocation under the
\* hash of the minted token, and never the token itself; a ValidateKey call on
\* the token that starts while no dashboard operation is in progress and
\* returns a KeyConfig of a key that is not revoked returns that key's id,
\* owner, name, allowed patterns and budget cap with the owner's current
\* provider secrets.
C26_CreateThenValidate ==
    /\ [](\A i \in 1..Len(dbKeys) :
            /\ dbKeys[i].hash = HashKey(GenerateVirtualKey(i))
            /\ dbKeys[i].hash # GenerateVirtualKey(i))
    /\ [][Len(dbKeys') > Len(dbKeys) =>
            /\ Len(dbKeys') = Len(dbKeys) + 1
            /\ dbKeys'[Len(dbKeys')].spend = 0
            /\ ~dbKeys'[Len(dbKeys')].revoked]_vars
    /\ [][\A p \in Procs :
            (/\ admin.pc \in {"idle", "returned"}
             /\ req[p].pc \in {"idle", "done"}
             /\ req'[p].pc = "body"
             /\ ~GetVirtualKeyByID(req'[p].cfg.keyID).revoked) =>
                LET config == req'[p].cfg
                    key == GetVirtualKeyByID(config.keyID)
                IN  /\ config.userID = key.user
                    /\ config.name = key.name
                    /\ config.allowed = key.allowed
                    /\ config.budget = key.budget
                    /\ config.providers = CurrentProviders(key.user)]_vars

\* C27: a key's current spend never decreases, whatever the proxy requests
\* and the usage counts their upstream responses report, and whatever
\* UpdateSpend, UpdateKey, RevokeKey and provider operations run.
C27_SpendNeverDecreases ==
    [][\A k \in 1..Len(dbKeys) : dbKeys'[k].spend >= dbKeys[k].spend]_vars

\* C30: Decrypt of what Encrypt returned for a plaintext gives that plaintext
\* back, under the same master key; Decrypt fails on every ciphertext shorter
\* than the nonce, and on a ciphertext of Encrypt in which a byte was altered.
C30_OpenInvertsSeal ==
    applied.fn = "Decrypt" =>
        LET plaintext == applied.args[1]
            sealed == applied.args[2]
            ciphertext == applied.args[3]
        IN  /\ ciphertext = sealed =>
                  applied.result.ok /\ applied.result.plaintext = plaintext
            /\ Len(ciphertext) < NonceSize => ~applied.result.ok
            /\ Len(ciphertext) = Len(sealed) /\ ciphertext # sealed => ~applied.result.ok

\* Decrypt refused a ciphertext whose first encrypted byte was altered.
C30_Witness ==
    /\ applied.fn = "Decrypt"
    /\ Len(applied.args[1]) = MaxPlain
    /\ Len(applied.args[3]) = Len(applied.args[2])
    /\ applied.args[3][NonceSize + 1] # applied.args[2][NonceSize + 1]
    /\ ~applied.result.ok

\* C31: when one of the owner's provider rows does not decrypt during
\* ValidateKey, the call ends with an error and without a KeyConfig (the
\* decryption error, or the store's error when the rows could not be read):
\* no provider map with the row left out or replaced is returned, and the
\* cache is not written.
C31_DecryptionFailureIsFatal ==
    [][\A p \in Procs :
         (/\ req[p].pc = "vk_prov" /\ req'[p] # req[p]
          /\ \E k \in GetUserProviders(req[p].key.user) :
                ~Decrypt(dbProviders[req[p].key.user][k]).ok) =>
             /\ req'[p].pc = "done" /\ req'[p].cfg = None
             /\ req'[p].err \in {"decryption error", "database error"}
             /\ cache' = cache]_vars

\* A request refused for a provider row that does not decrypt, its owner
\* having a second row that does.
C31_Witness ==
    \E p \in Procs, u \in Users :
        /\ req[p].pc = "done" /\ req[p].err = "decryption error"
        /\ \E k \in ProviderKinds : Decrypt(dbProviders[u][k]).ok
        /\ \E k \in ProviderKinds : dbProviders[u][k] = "gcm:?"
        /\ \E i \in 1..Len(dbKeys) : dbKeys[i].user = u

\* C32: the UpdateVirtualKey statement of UpdateKey writes the fields the
\* patch provides and nothing else: the fields not provided, current spend,
\* token hash, owner and revocation of the key, and every other key, are as
\* before; with an empty patch the records are unchanged, and UpdateKey goes
\* on to the delete of the key's cache entry all the same.
C32_PatchWritesOnlyGivenFields ==
    [][(admin.pc = "up_db" /\ admin'.pc = "up_cache") =>
          LET id == admin.id
              patch == admin.patch
          IN  /\ Len(dbKeys') = Len(dbKeys)
              /\ \A i \in 1..Len(dbKeys) : i # id => dbKeys'[i] = dbKeys[i]
              /\ dbKeys'[id].name = IF patch.hasName THEN patch.name ELSE dbKeys[id].name
              /\ dbKeys'[id].allowed =
                    IF patch.hasAllowed THEN patch.allowed ELSE dbKeys[id].allowed
              /\ dbKeys'[id].budget =
                    IF patch.hasBudget THEN patch.budget ELSE dbKeys[id].budget
              /\ dbKeys'[id].spend = dbKeys[id].spend
              /\ dbKeys'[id].hash = dbKeys[id].hash
              /\ dbKeys'[id].user = dbKeys[id].user
              /\ dbKeys'[id].revoked = dbKeys[id].revoked
              /\ patch = NoPatch => dbKeys' = dbKeys
              /\ admin'.hash = dbKeys[id].hash]_vars

\* A key created with allowed patterns and a budget cap, and held in the
\* cache, was renamed: the delete of its cache entry is next.
C32_Witness ==
    /\ admin.pc = "up_cache" /\ admin.patch.hasName /\ ~admin.patch.hasAllowed
    /\ dbKeys[admin.id].name = "n2"
    /\ dbKeys[admin.id].allowed = <<PatternOpenAIAll>>
    /\ dbKeys[admin.id].budget = 0
    /\ cache[admin.hash] # None

\* C33: the statements of UpdateSpend leave the cache unchanged; a cache entry
\* changes only by being written by a ValidateKey that missed the cache, or by
\* being deleted or expiring; a ValidateKey served from the cache returns the
\* entry, with the spend it was built with; a ValidateKey that misses returns
\* the current spend the store held when it read the key.
C33_SpendVisibleAfterRebuild ==
    /\ [][(\/ dbDaily' # dbDaily
           \/ \E k \in 1..Len(dbKeys) : dbKeys'[k].spend # dbKeys[k].spend) =>
               cache' = cache]_vars
    /\ [][\A h \in Hashes :
            (cache'[h] # cache[h] /\ cache'[h] # None) =>
                \E p \in Procs :
                    req[p].pc = "vk_set" /\ req[p].hash = h /\ cache'[h] = req[p].cfg]_vars
    /\ [][\A p \in Procs :
            /\ (req[p].pc \in {"idle", "done"} /\ req'[p].pc = "body") =>
                  \E h \in Hashes : cache[h] = req'[p].cfg
            /\ (req[p].pc = "vk_key" /\ req'[p].pc = "vk_prov") =>
                  req'[p].key.spend = dbKeys[req'[p].key.id].spend
            /\ (req[p].pc = "vk_prov" /\ req'[p].pc = "vk_set") =>
                  req'[p].cfg.spend = req[p].key.spend
            /\ (req[p].pc = "vk_set" /\ req'[p].pc = "body") =>
                  req'[p].cfg = req[p].cfg]_vars

\* A ValidateKey served from the cache returned a spend that is no longer the
\* store's.
C33_Witness ==
    \E p \in Procs :
        /\ req[p].pc = "body"
        /\ \E h \in Hashes : cache[h] = req[p].cfg
        /\ req[p].cfg.spend # dbKeys[req[p].cfg.keyID].spend

\* C34: no error response sent to a proxy client carries the raw error text
\* of the cache, the store or the crypto library: a ValidateKey that failed on
\* one of them reaches the client as its category only.
C34_NoDriverTextToClient ==
    \A p \in Procs :
        req[p].written =>
            \A i \in 1..Len(req[p].message) : req[p].message[i] # DriverText

C37_RevocationPermanent ==
    [][/\ \A k \in 1..Len(dbKeys) :
            dbKeys[k].revoked => k <= Len(dbKeys') /\ dbKeys'[k].revoked
       /\ \A h \in Hashes :
            (cache'[h] # cache[h] /\ cache'[h] # None) =>
                \E p \in Procs : /\ req[p].pc = "vk_set"
                                 /\ req[p].hash = h
                                 /\ ~req[p].revokedAtStart]_vars

\* C37 witness: a key is revoked, a ValidateKey that started after the
\* revocation was stored has been refused, and the key has no cache entry.
C37_Witness ==
    \E p \in Procs, k \in 1..Len(dbKeys) :
        /\ dbKeys[k].revoked
        /\ req[p].pc = "done"
        /\ req[p].revokedAtStart
        /\ req[p].status = 401
        /\ cache[dbKeys[k].hash] = None

(***************************************************************************)
(* Claims about the log pipeline.                                          *)
(***************************************************************************)
InBulk(e) == \E i \in 1..Len(bulkReqs) : \E j \in 1..Len(bulkReqs[i]) : bulkReqs[i][j] = e

\* The bound-free Log step: what a caller's Log does in the current state.
LogCall == LogUpTo(nlog + 1)

\* C6: Log never blocks its caller: in every state of the running pipeline a
\* Log call can complete, also with the channel full and every worker inside
\* bulkIndex; the channel never holds more than channelSize entries; and a
\* Log call enqueues the entry when there is room and otherwise drops it and
\* leaves the channel as it was.
C6_LogNeverBlocks ==
    /\ [](Len(logChan) <= channelSize /\ ENABLED LogCall)
    /\ [][nlog' # nlog =>
            IF Len(logChan) < channelSize
            THEN logChan' = Append(logChan, nlog') /\ dropped' = dropped
            ELSE logChan' = logChan /\ dropped' = dropped \cup {nlog'}]_vars

\* C6 witness: the channel is full, an entry has been dropped, and every
\* worker is inside bulkIndex (the backend has not answered).
C6_Witness ==
    /\ Len(logChan) = channelSize
    /\ dropped # {}
    /\ \A w \in Workers : task[w].pc = "bulk"

\* C7 (as claimed): when Close has returned, every entry Log had accepted
\* before Close was called has been handed to a bulk-index request.
C7_CloseFlushesAccepted ==
    task[Closer].pc = "returned" => \A e \in closeSnapshot : InBulk(e)

\* C8: no entry is handed to bulkIndex twice, by the same or by different
\* flushes, whatever the outcome of the bulk requests.
C8_AtMostOneBulk ==
    LET flat == Flatten(bulkReqs)
    IN  \A i, j \in 1..Len(flat) : i # j => flat[i] # flat[j]

\* C8 witness: a worker's flush, the ticker's and the final flush of Close
\* have each issued a bulk request.
C8_Witness ==
    /\ task[Closer].pc = "returned"
    /\ ticked
    /\ Len(bulkReqs) >= 3

\* C9: in the running pipeline under fair scheduling, every entry Log
\* accepted is eventually handed to a bulk-index request, also an entry
\* that never sees the batch reach batchSize.
C9_AcceptedEventuallyIndexed ==
    \A e \in 1..MaxLiveEntries : (e \in Accepted) ~> InBulk(e)

\* C9 witness: fewer than batchSize entries were submitted and the ticker's
\* flush sent them as one bulk request.
C9_Witness ==
    /\ nlog > 0
    /\ nlog < batchSize
    /\ Len(bulkReqs) = 1
    /\ Len(bulkReqs[1]) = nlog

\* Nothing of the pipeline is in flight: the channel is empty and every
\* goroutine is back in its select.
Quiescent ==
    /\ logChan = <<>>
    /\ batchMu = "free"
    /\ \A t \in Workers \cup {Flusher} : task[t].pc = "select"

\* C10: as long as at most batchSize entries were submitted and no tick has
\* fired, at most one bulk request was issued and it carries exactly the
\* batchSize entries; and once all batchSize entries are through, exactly
\* one was issued.
C10_OneBulkOfBatchSize ==
    (~ticked /\ nlog <= batchSize /\ dropped = {}) =>
        /\ Len(bulkReqs) <= 1
        /\ \A i \in 1..Len(bulkReqs) :
              /\ Len(bulkReqs[i]) = batchSize
              /\ {bulkReqs[i][j] : j \in 1..batchSize} = 1..batchSize
        /\ (Quiescent /\ nlog = batchSize) => Len(bulkReqs) = 1

\* C10 witness: batchSize entries went through without a tick and one bulk
\* request was issued.
C10_Witness ==
    /\ ~ticked
    /\ nlog = batchSize
    /\ Quiescent
    /\ Len(bulkReqs) = 1

\* C36: no bulk-index request carries more than batchSize documents, and the
\* shared batch never holds more than batchSize entries, for any number of
\* submitted entries and any interleaving of the workers and the ticker.
C36_BulkAtMostBatchSize ==
    /\ Len(batch) <= batchSize
    /\ \A i \in 1..Len(bulkReqs) : Len(bulkReqs[i]) <= batchSize

\* C38: Log may be called at any time relative to Close: a Log call that
\* runs while Close runs or after it returns normally, the entry enqueued or
\* dropped, and never sends on the closed channel (which would panic).
C38_LogSafeAroundClose == ~panicked

\* A step of the pipeline other than the return of a bulk request: what can
\* still happen while the backend answers nothing.
StepBesidesBulk ==
    \/ \E w \in Workers : WorkerRecv(w) \/ AddLock(w) \/ AddAppend(w)
    \/ \E t \in Workers \cup {Flusher} : FlushLock(t) \/ FlushSwap(t)

\* C39: the batch mutex is never held across a bulk-index call: a task that
\* is inside bulkIndex does not hold batchMu; whoever holds it is in one of
\* the two short critical sections and can leave it at once; and as long as
\* an entry is buffered and some worker is not itself inside bulkIndex, the
\* pipeline can take a step without any bulk request returning, so a stalled
\* flush blocks only the task that issued it.
C39_MutexNotHeldAcrossBulk ==
    /\ \A t \in Tasks : task[t].pc = "bulk" => batchMu # t
    /\ batchMu # "free" =>
          /\ task[batchMu].pc \in {"add_cs", "flush_cs"}
          /\ ENABLED (AddAppend(batchMu) \/ FlushSwap(batchMu))
    /\ (Len(logChan) > 0 /\ \E w \in Workers : task[w].pc # "bulk") =>
          ENABLED StepBesidesBulk

\* C39 witness: one worker and the ticker are inside bulkIndex while another
\* worker holds the mutex for a flush of its own.
C39_Witness ==
    \E w1, w2 \in Workers :
        /\ w1 # w2
        /\ task[w1].pc = "bulk"
        /\ task[Flusher].pc = "bulk"
        /\ task[w2].pc = "flush_cs"
        /\ batchMu = w2
        /\ Len(batch) > 0

====
